---- MODULE Spec2Model ----
(***************************************************************************)
(* A model of the inco contract-directive compiler:                        *)
(*   - the directive parser         (internal/inco/contract.go),           *)
(*   - the injection engine         (engine: processStmtList,              *)
(*                                   generateMustForAssign),               *)
(*   - the line remapper            (engine: injectLineDirectives),        *)
(*   - the pipeline driver          (engine: Run, processFile,             *)
(*                                   writeOverlay).                        *)
(* Strings are sequences of one-character strings, so that the parser's    *)
(* prefix tests, trims, index searches and slices are computed as the Go   *)
(* code computes them.                                                     *)
(***************************************************************************)
EXTENDS Integers, Sequences, FiniteSets, TLC

VARIABLES
    inp,        \* parser: the pieces the comment text is assembled from
    text,       \* parser: the comment text handed to ParseDirective
    result,     \* parser: what ParseDirective returned (Nil or a Directive)
    ppc,        \* parser: "ready" before the call, "parsed" after it
    massign,    \* generateMustForAssign: the assignment and its type information
    mdir,       \* generateMustForAssign: the @must directive bound to it
    mfunc,      \* code generator: the type of the enclosing function
    mres,       \* generateMustForAssign: what the call produced
    mpc,        \* generateMustForAssign: "ready", then "done"
    srcLines,   \* injection: the function body, one line shape per line
    dirMap,     \* injection: position -> directiveInfo, the pending pool
    stmtIdx,    \* injection: processStmtList's loop index
    newList,    \* injection: the statement list built so far
    run,        \* injection: which run over the unchanged source (1 or 2)
    shadows,    \* injection: the statement list each finished run produced
    spc,        \* injection: "new", "list" or "done"
    origLines,  \* remapper: the lines of the original file
    shadowLines,\* remapper: the lines of the printed shadow
    sIdx,       \* remapper: the loop index over shadowLines
    origIdx,    \* remapper: the cursor into origLines (0-based)
    lineResult, \* remapper: the output lines so far
    needsLineDirective, \* remapper: an injected line passed since the last match
    lpc,        \* remapper: "walk", then "done"
    entries,    \* driver: what filepath.Walk meets under Root, in its order
    walkIdx,    \* driver: the entry the walk visits next
    Replace,    \* driver: Overlay.Replace, source -> shadow path
    shadowFiles,\* driver: the shadow files written to the cache directory
    overlayJson,\* driver: overlay.json on disk ("absent" or its content)
    written,    \* driver: the paths it has written to with os.WriteFile
    overlayWrites, \* driver: how often this run wrote overlay.json
    rootName,      \* driver: the base name of Engine.Root
    processed,  \* driver: the entries processFile was called on, in order
    failure,    \* driver: the first fatal error: where and what
    runErr,     \* driver: what Run returned
    rpc         \* driver: "start", "walk", "walked" or "returned"

parseVars == <<inp, text, result, ppc>>

mustVars == <<massign, mdir, mfunc, mres, mpc>>

stmtVars == <<srcLines, dirMap, stmtIdx, newList, run, shadows, spc>>

lineVars == <<origLines, shadowLines, sIdx, origIdx, lineResult, needsLineDirective, lpc>>

runVars == <<entries, walkIdx, Replace, shadowFiles, overlayJson, written, overlayWrites,
             rootName, processed, failure, runErr, rpc>>

vars == <<parseVars, mustVars, stmtVars, lineVars, runVars>>

----------------------------------------------------------------------------
(* Bounds of the model.                                                    *)

MaxFlags == 2       \* flags written after the keyword of a generated comment

MaxLhs == 2         \* left-hand sides of an assignment given to generateMustForAssign

MaxLines == 3

MaxFiles == 3

MaxResults == 2

MaxNest == 2        \* lines inside the nested block of a function body

MaxArgs == 2        \* arguments of a -ret(...) list given to the splitter

MaxFileLines == 4   \* body lines of a file given to the line remapper       \* lines of a function body given to processStmtList

----------------------------------------------------------------------------
(* strings: the part of Go's package strings the parser uses               *)

Space == {" ", "\t", "\n"}

Drop(s, n) == SubSeq(s, n + 1, Len(s))

Take(s, n) == SubSeq(s, 1, n)

HasPrefix(s, p) == Len(s) >= Len(p) /\ Take(s, Len(p)) = p

HasSuffix(s, p) == Len(s) >= Len(p) /\ Drop(s, Len(s) - Len(p)) = p

TrimPrefix(s, p) == IF HasPrefix(s, p) THEN Drop(s, Len(p)) ELSE s

TrimSuffix(s, p) == IF HasSuffix(s, p) THEN Take(s, Len(s) - Len(p)) ELSE s

RECURSIVE TrimLeft(_)
TrimLeft(s) == IF s # <<>> /\ Head(s) \in Space THEN TrimLeft(Tail(s)) ELSE s

RECURSIVE TrimRight(_)
TrimRight(s) ==
    IF s # <<>> /\ s[Len(s)] \in Space THEN TrimRight(Take(s, Len(s) - 1)) ELSE s

TrimSpace(s) == TrimRight(TrimLeft(s))

\* strings.LastIndex(s, ","), 0-based as in Go; -1 when there is no comma
RECURSIVE LastIndexFrom(_, _, _)
LastIndexFrom(s, c, i) ==
    IF i = 0 THEN -1
    ELSE IF s[i] = c THEN i - 1
    ELSE LastIndexFrom(s, c, i - 1)

LastIndex(s, c) == LastIndexFrom(s, c, Len(s))

\* strings.Split(s, ","): always at least one piece
RECURSIVE SplitFrom(_, _, _, _)
SplitFrom(s, c, i, start) ==
    IF i > Len(s) THEN <<SubSeq(s, start, Len(s))>>
    ELSE IF s[i] = c THEN <<SubSeq(s, start, i - 1)>> \o SplitFrom(s, c, i + 1, i + 1)
    ELSE SplitFrom(s, c, i + 1, start)

Split(s, c) == SplitFrom(s, c, 1, 1)

----------------------------------------------------------------------------
(* Directive: contract.go                                                  *)

Nil == [nil |-> TRUE]

NewDirective(kind) ==
    [Kind |-> kind, ND |-> FALSE, Ret |-> FALSE, Log |-> FALSE,
     RetExprs |-> <<>>, Vars |-> <<>>, Expr |-> <<>>, Message |-> <<>>]

KwRequire == <<"@", "r", "e", "q", "u", "i", "r", "e">>
KwMust    == <<"@", "m", "u", "s", "t">>
FlagND    == <<"-", "n", "d">>
FlagRet   == <<"-", "r", "e", "t">>
FlagLog   == <<"-", "l", "o", "g">>

\* splitTopLevelCommas: the scan keeps (depth, inString, escaped, start, parts)
RECURSIVE SplitScan(_, _, _, _, _, _, _)
SplitScan(s, i, depth, inString, escaped, start, parts) ==
    IF i > Len(s)
    THEN LET part == TrimSpace(SubSeq(s, start, Len(s)))
         IN  IF part # <<>> THEN Append(parts, part) ELSE parts
    ELSE LET c == s[i] IN
         IF escaped THEN SplitScan(s, i + 1, depth, inString, FALSE, start, parts)
         ELSE IF c = "\\" /\ inString
              THEN SplitScan(s, i + 1, depth, inString, TRUE, start, parts)
         ELSE IF c = "\""
              THEN SplitScan(s, i + 1, depth, ~inString, FALSE, start, parts)
         ELSE IF inString
              THEN SplitScan(s, i + 1, depth, inString, FALSE, start, parts)
         ELSE IF c \in {"(", "[", "{"}
              THEN SplitScan(s, i + 1, depth + 1, inString, FALSE, start, parts)
         ELSE IF c \in {")", "]", "}"}
              THEN SplitScan(s, i + 1, depth - 1, inString, FALSE, start, parts)
         ELSE IF c = "," /\ depth = 0
              THEN LET part == TrimSpace(SubSeq(s, start, i - 1))
                   IN  SplitScan(s, i + 1, depth, inString, FALSE, i + 1,
                                 IF part # <<>> THEN Append(parts, part) ELSE parts)
         ELSE SplitScan(s, i + 1, depth, inString, FALSE, start, parts)

splitTopLevelCommas(s) == SplitScan(s, 1, 0, FALSE, FALSE, 1, <<>>)

\* parseRetExprs, first loop: the 1-based index of the parenthesis that
\* closes the one at s[1], 0 when there is none
RECURSIVE CloseScan(_, _, _, _, _)
CloseScan(s, i, depth, inString, escaped) ==
    IF i > Len(s) THEN 0
    ELSE LET c == s[i] IN
         IF escaped THEN CloseScan(s, i + 1, depth, inString, FALSE)
         ELSE IF c = "\\" /\ inString THEN CloseScan(s, i + 1, depth, inString, TRUE)
         ELSE IF c = "\"" THEN CloseScan(s, i + 1, depth, ~inString, FALSE)
         ELSE IF inString THEN CloseScan(s, i + 1, depth, inString, FALSE)
         ELSE IF c = "(" THEN CloseScan(s, i + 1, depth + 1, inString, FALSE)
         ELSE IF c = ")"
              THEN IF depth - 1 = 0 THEN i
                   ELSE CloseScan(s, i + 1, depth - 1, inString, FALSE)
         ELSE CloseScan(s, i + 1, depth, inString, FALSE)

parseRetExprs(s) ==
    IF Len(s) = 0 \/ s[1] # "("
    THEN [exprs |-> <<>>, remaining |-> s, ok |-> FALSE]
    ELSE LET closeIdx == CloseScan(s, 1, 0, FALSE, FALSE) IN
         IF closeIdx = 0
         THEN [exprs |-> <<>>, remaining |-> s, ok |-> FALSE]
         ELSE LET inner     == SubSeq(s, 2, closeIdx - 1)
                  remaining == Drop(s, closeIdx)
                  exprs     == splitTopLevelCommas(inner)
              IN  IF Len(exprs) = 0
                  THEN [exprs |-> <<>>, remaining |-> remaining, ok |-> FALSE]
                  ELSE [exprs |-> exprs, remaining |-> remaining, ok |-> TRUE]

\* the -ret branch of both flag loops: d.Ret is set, and what follows the
\* flag is the rest, less a well-formed parenthesised list
RetFlag(rest, d) ==
    LET after == Drop(rest, 4) IN
    IF HasPrefix(TrimSpace(after), <<"(">>)
    THEN LET r == parseRetExprs(TrimSpace(after)) IN
         IF r.ok
         THEN [rest |-> TrimSpace(r.remaining),
               d |-> [d EXCEPT !.Ret = TRUE, !.RetExprs = r.exprs]]
         ELSE [rest |-> TrimSpace(after), d |-> [d EXCEPT !.Ret = TRUE]]
    ELSE [rest |-> TrimSpace(after), d |-> [d EXCEPT !.Ret = TRUE]]

\* mutant of MustLogFlag: -log that forgets to set Ret
MustLogFlagNoRet(d) == [d EXCEPT !.Log = TRUE]

\* parseMust, the -log branch
MustLogFlag(d) == [d EXCEPT !.Log = TRUE, !.Ret = TRUE]

\* mutant of RequireLogFlag: -log that forgets to set Ret
RequireLogFlagNoRet(d) == [d EXCEPT !.Log = TRUE]

\* parseRequire, the -log branch
RequireLogFlag(d) == [d EXCEPT !.Log = TRUE, !.Ret = TRUE]

RECURSIVE MustFlags(_, _)
MustFlags(rest, d) ==
    IF HasPrefix(rest, FlagRet)
    THEN LET r == RetFlag(rest, d) IN MustFlags(r.rest, r.d)
    ELSE IF HasPrefix(rest, FlagLog)
    THEN MustFlags(TrimSpace(Drop(rest, 4)), MustLogFlag(d))
    ELSE [rest |-> rest, d |-> d]

\* parseMust: whatever follows the flags is ignored
parseMust(rest) == MustFlags(TrimSpace(rest), NewDirective("Must")).d

RECURSIVE RequireFlags(_, _)
RequireFlags(rest, d) ==
    IF HasPrefix(rest, FlagND)
    THEN RequireFlags(TrimSpace(Drop(rest, 3)), [d EXCEPT !.ND = TRUE])
    ELSE IF HasPrefix(rest, FlagRet)
    THEN LET r == RetFlag(rest, d) IN RequireFlags(r.rest, r.d)
    ELSE IF HasPrefix(rest, FlagLog)
    THEN RequireFlags(TrimSpace(Drop(rest, 4)), RequireLogFlag(d))
    ELSE [rest |-> rest, d |-> d]

\* parseRequire, -nd mode: the variable list
RECURSIVE TrimmedNonEmpty(_)
TrimmedNonEmpty(parts) ==
    IF parts = <<>> THEN <<>>
    ELSE LET v == TrimSpace(Head(parts)) IN
         IF v # <<>> THEN <<v>> \o TrimmedNonEmpty(Tail(parts))
         ELSE TrimmedNonEmpty(Tail(parts))

\* parseRequire, expression form: expr [, "message"], cut at the last comma
RequireExpr(rest, d) ==
    LET idx == LastIndex(rest, ",")
        candidate == TrimSpace(Drop(rest, idx + 1))
    IN  IF idx >= 0 /\ Len(candidate) >= 2 /\ candidate[1] = "\""
           /\ candidate[Len(candidate)] = "\""
        THEN [d EXCEPT !.Expr = TrimSpace(Take(rest, idx)),
                       !.Message = SubSeq(candidate, 2, Len(candidate) - 1)]
        ELSE [d EXCEPT !.Expr = rest]

\* mutant of RequireVars: the operand is kept as Expr as well
RequireVarsAndExpr(rest, d) ==
    [d EXCEPT !.Vars = TrimmedNonEmpty(Split(rest, ",")), !.Expr = rest]

\* parseRequire, -nd mode: the operand is the variable list and nothing else
RequireVars(rest, d) == [d EXCEPT !.Vars = TrimmedNonEmpty(Split(rest, ","))]

\* mutant of RequireEmpty: an empty @require is refused
RequireEmptyIsNil(d) == Nil

\* parseRequire on empty text: the bare directive is returned
RequireEmpty(d) == d

parseRequire(rest0) ==
    LET rest == TrimSpace(rest0)
        d0   == NewDirective("Require")
    IN  IF rest = <<>> THEN RequireEmpty(d0)
        ELSE LET f == RequireFlags(rest, d0) IN
             IF f.rest = <<>> THEN f.d
             ELSE IF f.d.ND
             THEN RequireVars(f.rest, f.d)
             ELSE RequireExpr(f.rest, f.d)

\* ParseDirective, the comment markers
StripMarkers(t) ==
    LET s == TrimSpace(t) IN
    IF HasPrefix(s, <<"/", "/">>) THEN TrimSpace(Drop(s, 2))
    ELSE IF HasPrefix(s, <<"/", "*">>)
    THEN TrimSpace(TrimSuffix(TrimPrefix(s, <<"/", "*">>), <<"*", "/">>))
    ELSE s

ParseDirective(t) ==
    LET s == StripMarkers(t) IN
    IF ~HasPrefix(s, <<"@">>) THEN Nil
    ELSE IF HasPrefix(s, KwRequire) THEN parseRequire(TrimPrefix(s, KwRequire))
    ELSE IF HasPrefix(s, KwMust) THEN parseMust(TrimPrefix(s, KwMust))
    ELSE Nil

----------------------------------------------------------------------------
(* The comments handed to ParseDirective (collectDirectives calls it on    *)
(* every comment of a file): a comment form, a keyword, up to MaxFlags     *)
(* flags and an operand text.                                              *)

Forms == {"line", "block", "raw"}

Keywords == {"require", "must", "ensure", "plain"}

FlagNames == {"nd", "ret", "log", "retargs", "retopen", "retempty"}

KeywordText(k) ==
    CASE k = "require" -> KwRequire
      [] k = "must"    -> KwMust
      [] k = "ensure"  -> <<"@", "e", "n", "s", "u", "r", "e">>
      [] OTHER         -> <<"j", "u", "s", "t">>

FlagText(f) ==
    CASE f = "nd"       -> FlagND
      [] f = "ret"      -> FlagRet
      [] f = "log"      -> FlagLog
      [] f = "retargs"  -> FlagRet \o <<"(", "a", ",", " ", "b", ")">>
      [] f = "retopen"  -> FlagRet \o <<"(">>
      [] f = "retbad"   -> FlagRet \o <<"(", "a", " ", "+", ")">>
      [] OTHER          -> FlagRet \o <<"(", ")">>

OpNone    == <<>>
OpVar     == <<"x">>
OpVars    == <<"x", ",", " ", "y">>
OpCall    == <<"f", "(", "a", ",", " ", "b", ")">>
OpMsg     == <<"x", ",", " ", "\"", "m", "\"">>
OpCallMsg == <<"f", "(", "a", ",", " ", "b", ")", ",", " ", "\"", "m", "\"">>
OpCallStr == <<"f", "(", "a", ",", " ", "\"", "b", "\"", ")", "+", "\"", "c", "\"">>
OpStrLit  == <<"\"", "a", ",", " ", "b", "\"">>
OpParen   == <<"(", "x", ")", " ", ">", " ", "0">>
OpBad     == <<"x", " ", ">">>

Operands == {OpNone, OpVar, OpVars, OpCall, OpMsg, OpCallMsg, OpCallStr, OpStrLit, OpParen}

FlagSeqs == UNION {[1..n -> FlagNames] : n \in 0..MaxFlags}

RECURSIVE FlagsText(_)
FlagsText(fs) ==
    IF fs = <<>> THEN <<>>
    ELSE <<" ">> \o FlagText(Head(fs)) \o FlagsText(Tail(fs))

Render(i) ==
    LET body == KeywordText(i.kw) \o FlagsText(i.flags)
                \o (IF i.operand = <<>> THEN <<>> ELSE <<" ">> \o i.operand)
    IN  CASE i.form = "line"  -> <<"/", "/", " ">> \o body
          [] i.form = "block" -> <<"/", "*", " ">> \o body \o <<" ", "*", "/">>
          [] OTHER            -> body

ParseInputs == [form : Forms, kw : Keywords, flags : FlagSeqs, operand : Operands]

\* the parts of the state a specification does not use stay as they are here
IdleParse ==
    /\ inp = [form |-> "raw", kw |-> "plain", flags |-> <<>>, operand |-> OpNone]
    /\ text = <<>>
    /\ result = Nil
    /\ ppc = "idle"

IdleMust ==
    /\ massign = Nil
    /\ mdir = Nil
    /\ mfunc = Nil
    /\ mres = Nil
    /\ mpc = "idle"

IdleStmt ==
    /\ srcLines = <<>>
    /\ dirMap = <<>>
    /\ stmtIdx = 0
    /\ newList = <<>>
    /\ run = 0
    /\ shadows = <<>>
    /\ spc = "idle"

IdleLines ==
    /\ origLines = <<>>
    /\ shadowLines = <<>>
    /\ sIdx = 0
    /\ origIdx = 0
    /\ lineResult = <<>>
    /\ needsLineDirective = FALSE
    /\ lpc = "idle"

IdleRun ==
    /\ entries = <<>>
    /\ walkIdx = 0
    /\ Replace = <<>>
    /\ shadowFiles = {}
    /\ overlayJson = "absent"
    /\ written = {}
    /\ overlayWrites = 0
    /\ rootName = <<>>
    /\ processed = <<>>
    /\ failure = [at |-> 0, what |-> "nil"]
    /\ runErr = "nil"
    /\ rpc = "idle"

InitParse ==
    /\ inp \in ParseInputs
    /\ text = Render(inp)
    /\ result = Nil
    /\ ppc = "ready"
    /\ IdleMust
    /\ IdleStmt
    /\ IdleLines
    /\ IdleRun

\* collectDirectives: d := ParseDirective(c.Text)
Parse ==
    /\ ppc = "ready"
    /\ result' = ParseDirective(text)
    /\ ppc' = "parsed"
    /\ UNCHANGED <<inp, text, mustVars, stmtVars, lineVars, runVars>>

NextParse == Parse

SpecParse == InitParse /\ [][NextParse]_vars

----------------------------------------------------------------------------
(* Claims about the directive parser                                       *)

Parsed == ppc = "parsed"

EmptyRequireInput ==
    inp.kw = "require" /\ inp.flags = <<>> /\ inp.operand = OpNone

RECURSIVE TopCommas(_, _, _, _, _)
TopCommas(s, i, depth, inStr, esc) ==
    IF i > Len(s) THEN <<>>
    ELSE LET c == s[i] IN
         IF esc THEN TopCommas(s, i + 1, depth, inStr, FALSE)
         ELSE IF inStr
              THEN TopCommas(s, i + 1, depth, c # "\"", c = "\\")
         ELSE IF c = "\"" THEN TopCommas(s, i + 1, depth, TRUE, FALSE)
         ELSE IF c \in {"(", "[", "{"} THEN TopCommas(s, i + 1, depth + 1, FALSE, FALSE)
         ELSE IF c \in {")", "]", "}"} THEN TopCommas(s, i + 1, depth - 1, FALSE, FALSE)
         ELSE IF c = "," /\ depth = 0
              THEN <<i>> \o TopCommas(s, i + 1, depth, FALSE, FALSE)
         ELSE TopCommas(s, i + 1, depth, FALSE, FALSE)

\* a double-quoted literal: one opening quote, one closing quote
QuotedLiteral(t) ==
    /\ Len(t) >= 2
    /\ t[1] = "\""
    /\ t[Len(t)] = "\""
    /\ \A k \in 2..(Len(t) - 1) : t[k] # "\""

ExprModeInput ==
    /\ inp.kw = "require"
    /\ inp.operand # OpNone
    /\ \A k \in 1..Len(inp.flags) : inp.flags[k] \in {"ret", "log", "retargs"}

\* C8: in expression mode a trailing Message is split off only when the
\* final top-level comma-separated token of the text is a double-quoted
\* literal; a comma nested in parentheses, brackets, braces or a string
\* literal never separates Expr from Message, and in every other case the
\* whole text is Expr and Message is empty.
C8_MessageOnlyAfterTopLevelComma ==
    Parsed /\ ExprModeInput =>
        LET rest == inp.operand
            cs   == TopCommas(rest, 1, 0, FALSE, FALSE)
            last == cs[Len(cs)]
            tok  == TrimSpace(Drop(rest, last))
        IN  IF cs # <<>> /\ QuotedLiteral(tok)
            THEN /\ result.Expr = TrimSpace(Take(rest, last - 1))
                 /\ result.Message = SubSeq(tok, 2, Len(tok) - 1)
            ELSE /\ result.Expr = rest
                 /\ result.Message = <<>>

Unrecognized == inp.kw \notin {"require", "must"}

InvalidSyntax ==
    /\ inp.kw \in {"require", "must"}
    /\ \/ \E k \in 1..Len(inp.flags) : inp.flags[k] \in {"retopen", "retempty"}
       \/ /\ inp.kw = "must"
          /\ \/ inp.operand # OpNone
             \/ \E k \in 1..Len(inp.flags) : inp.flags[k] = "nd"

\* C9: ParseDirective returns none for every comment that is unrecognized
\* (its stripped text begins with neither @require nor @must) or invalid
\* under the directive grammar (a -ret( never closed or enclosing nothing,
\* or text other than -ret, -ret(...) and -log after @must).
C9_InvalidIsNone == Parsed /\ (Unrecognized \/ InvalidSyntax) => result = Nil

\* C10: every Directive returned with Log set also has Ret set, for
\* @require and @must and for any position of -log among the flags.
C10_LogImpliesRet == Parsed /\ result # Nil /\ result.Log => result.Ret

C10_Witness ==
    /\ Parsed
    /\ result # Nil
    /\ result.Kind = "Require"
    /\ result.Log
    /\ inp.flags = <<"nd", "log">>

----------------------------------------------------------------------------
(* Code generator: what a directive turns into                             *)

\* parser.ParseExpr on the expression texts of this model: a text is an
\* expression when its parentheses and string literals close, no comma
\* stands outside them and no operator is left without an operand
RECURSIVE ExprScan(_, _, _, _)
ExprScan(s, i, depth, inStr) ==
    IF i > Len(s) THEN depth = 0 /\ ~inStr
    ELSE LET c == s[i] IN
         IF c = "\"" THEN ExprScan(s, i + 1, depth, ~inStr)
         ELSE IF inStr THEN ExprScan(s, i + 1, depth, inStr)
         ELSE IF c = "(" THEN ExprScan(s, i + 1, depth + 1, inStr)
         ELSE IF c = ")" THEN depth > 0 /\ ExprScan(s, i + 1, depth - 1, inStr)
         ELSE IF c = "," THEN depth > 0 /\ ExprScan(s, i + 1, depth, inStr)
         ELSE ExprScan(s, i + 1, depth, inStr)

ParseExprOk(e) ==
    /\ e # <<>>
    /\ e[1] \notin {">", ",", ")"}
    /\ e[Len(e)] \notin {">", "+", ",", "("}
    /\ ExprScan(e, 1, 0, FALSE)

\* findEnclosingFuncType: no enclosing function, or its declared results,
\* field by field: how many names the field declares (0: unnamed) and its type
NoFunc == [nil |-> TRUE]

ResultTypes == {"int", "error"}

UnnamedFields == [names : {0}, type : ResultTypes]

NamedFields == [names : {1, 2}, type : ResultTypes]

FuncTypes ==
    {NoFunc}
    \cup {[results |-> r] : r \in UNION {[1..n -> UnnamedFields] : n \in 0..MaxResults}}
    \cup {[results |-> r] : r \in UNION {[1..n -> NamedFields] : n \in 1..MaxResults}}

\* the function the statement lists of the injection engine stand in
BodyFunc == [results |-> <<[names |-> 0, type |-> "error"]>>]

\* the statements of a guard's body
PanicStmt == [stmt |-> "panic", results |-> <<>>]

LogStmt == [stmt |-> "log", results |-> <<>>]

ReturnStmt(results) == [stmt |-> "return", results |-> results]

\* ZeroValueLiteral / zeroValueFromASTType: the zero value of a type
ZeroValue(type) == "zero:" \o type

\* IsErrorType, or the result type written as the identifier error
IsErrorResult(field) == field.type = "error"

FieldCount(field) == IF field.names = 0 THEN 1 ELSE field.names

Repeat(v, n) == [k \in 1..n |-> v]

\* buildReturnStmt, the loop over the result fields
RECURSIVE ZeroResults(_)
ZeroResults(fields) ==
    IF fields = <<>> THEN <<>>
    ELSE Repeat(ZeroValue(Head(fields).type), FieldCount(Head(fields)))
         \o ZeroResults(Tail(fields))

\* mutant of buildReturnStmt: named results get zero values as well
buildReturnStmtAlwaysZeros(ft) ==
    IF ft = NoFunc THEN ReturnStmt(<<>>) ELSE ReturnStmt(ZeroResults(ft.results))

\* buildReturnStmt: a bare return without results or with named results,
\* otherwise one zero value per result
buildReturnStmt(ft) ==
    IF ft = NoFunc \/ ft.results = <<>> THEN ReturnStmt(<<>>)
    ELSE IF \A k \in 1..Len(ft.results) : ft.results[k].names # 0 THEN ReturnStmt(<<>>)
    ELSE ReturnStmt(ZeroResults(ft.results))

\* buildMustReturnStmt, the loop over the result fields
RECURSIVE MustResults(_, _)
MustResults(fields, errVar) ==
    IF fields = <<>> THEN <<>>
    ELSE Repeat(IF IsErrorResult(Head(fields)) THEN errVar ELSE ZeroValue(Head(fields).type),
                FieldCount(Head(fields)))
         \o MustResults(Tail(fields), errVar)

\* buildMustReturnStmt: without declared results the error variable alone
buildMustReturnStmt(ft, errVar) ==
    IF ft = NoFunc \/ ft.results = <<>> THEN ReturnStmt(<<errVar>>)
    ELSE ReturnStmt(MustResults(ft.results, errVar))

\* buildCustomReturnStmt: every expression text has to parse
AllParse(exprs) == \A k \in 1..Len(exprs) : ParseExprOk(exprs[k])

\* the action of a generated guard: panic by default, a return with -ret,
\* a log statement and a return with -log
GuardAction(d) ==
    IF d.Log THEN "logreturn" ELSE IF d.Ret THEN "return" ELSE "panic"

Guard(di, on, body) ==
    [kind |-> "guard", dir |-> di.Pos, act |-> GuardAction(di.Directive),
     on |-> on, ret |-> di.Directive.RetExprs, body |-> body]

\* generateNDChecks / generateNDRetChecks: one guard per variable
RECURSIVE NDGuards(_, _, _)
NDGuards(di, vs, body) ==
    IF vs = <<>> THEN <<>>
    ELSE <<Guard(di, Head(vs), body)>> \o NDGuards(di, Tail(vs), body)

\* the guard of an expression: parser.ParseExpr(d.Expr) // @must -log makes
\* the generator log and return no statement when the text does not parse
ExprGuard(di, body) ==
    IF ParseExprOk(di.Directive.Expr) THEN <<Guard(di, di.Directive.Expr, body)>> ELSE <<>>

\* generateRequireRet: the body of its guards
RequireRetBody(d, ft) ==
    (IF d.Log THEN <<LogStmt>> ELSE <<>>)
    \o <<IF d.RetExprs # <<>> THEN ReturnStmt(d.RetExprs) ELSE buildReturnStmt(ft)>>

\* generateRequireRet: custom return expressions that do not parse make it
\* return no statement (buildCustomReturnStmt(...) // @must -log)
generateRequireRet(di, ft) ==
    LET d == di.Directive IN
    IF d.RetExprs # <<>> /\ ~AllParse(d.RetExprs) THEN <<>>
    ELSE IF d.ND THEN NDGuards(di, d.Vars, RequireRetBody(d, ft))
    ELSE IF d.Expr # <<>> THEN ExprGuard(di, RequireRetBody(d, ft))
    ELSE <<>>

\* generateRequire: one guard per -nd variable, one guard for an
\* expression, nothing for a directive that has neither
generateRequire(di, ft) ==
    LET d == di.Directive IN
    IF d.Ret \/ d.Log THEN generateRequireRet(di, ft)
    ELSE IF d.ND THEN NDGuards(di, d.Vars, <<PanicStmt>>)
    ELSE IF d.Expr # <<>> THEN ExprGuard(di, <<PanicStmt>>)
    ELSE <<>>

generateAssertion(di, ft) ==
    IF di.Directive.Kind = "Require" THEN generateRequire(di, ft) ELSE <<>>

Min(a, b) == IF a < b THEN a ELSE b

SetMax(S) == CHOOSE x \in S : \A y \in S : y <= x

SetMin(S) == CHOOSE x \in S : \A y \in S : x <= y

\* Strategy 1: the left-hand-side positions whose type is an error type
\* according to resolver.Info.Types (ti.avail: the entry exists)
TypedErrorPositions(a) ==
    IF ~a.ti.avail THEN {}
    ELSE IF a.rhsN = 1
    THEN IF a.ti.tuple
         THEN {i \in 1..Min(Len(a.ti.errs), Len(a.lhs)) : a.ti.errs[i]}
         ELSE IF a.ti.errs[1] /\ Len(a.lhs) = 1 THEN {1} ELSE {}
    ELSE IF Len(a.lhs) = a.rhsN
    THEN {i \in 1..Len(a.lhs) : a.ti.errs[i]}
    ELSE {}

\* the loops assign errorIdent without leaving: the last identifier wins
TypeChoice(a) ==
    LET c == {i \in TypedErrorPositions(a) : a.lhs[i].ident}
    IN  IF c = {} THEN 0 ELSE SetMax(c)

\* Strategy 2: the last blank identifier, else the first one named err
HeuristicChoice(a) ==
    LET blanks == {i \in 1..Len(a.lhs) : a.lhs[i].ident /\ a.lhs[i].name = "_"}
        errs   == {i \in 1..Len(a.lhs) : a.lhs[i].ident /\ a.lhs[i].name = "err"}
    IN  IF blanks # {} THEN SetMax(blanks)
        ELSE IF errs # {} THEN SetMin(errs)
        ELSE 0

\* mutant of ErrorIdent: the heuristics are tried before the types
ErrorIdentHeuristicFirst(a) ==
    IF HeuristicChoice(a) # 0 THEN HeuristicChoice(a) ELSE TypeChoice(a)

\* generateMustForAssign: the index of errorIdent in assign.Lhs, 0 for nil
ErrorIdent(a) ==
    IF TypeChoice(a) # 0 THEN TypeChoice(a) ELSE HeuristicChoice(a)

IncoErr(line) == "_inco_err_" \o ToString(line)

\* generateMustRetStmts: the guard that returns on an error; custom return
\* expressions that do not parse make it return no statement
\* (buildCustomReturnStmt(...) // @must -ret)
generateMustRetStmts(errVar, di, ft) ==
    LET d == di.Directive IN
    IF d.RetExprs # <<>> /\ ~AllParse(d.RetExprs) THEN <<>>
    ELSE <<Guard(di, errVar,
                 (IF d.Log THEN <<LogStmt>> ELSE <<>>)
                 \o <<IF d.RetExprs # <<>> THEN ReturnStmt(d.RetExprs)
                      ELSE buildMustReturnStmt(ft, errVar)>>)>>

\* generateMustForAssign: the assignment as it is left (a blank target is
\* renamed and the assignment made a declaration), the statements to put
\* after it, and the identifier they check
generateMustForAssign(a, di, ft) ==
    LET e == ErrorIdent(a) IN
    IF e = 0 THEN [assign |-> a, stmts |-> <<>>, checked |-> 0, target |-> ""]
    ELSE LET blank  == a.lhs[e].name = "_"
             target == IF blank THEN IncoErr(di.Line) ELSE a.lhs[e].name
             a2     == IF blank
                       THEN [a EXCEPT !.lhs[e].name = target, !.tok = ":="]
                       ELSE a
         IN  [assign |-> a2,
              stmts |-> IF di.Directive.Ret THEN generateMustRetStmts(target, di, ft)
                        ELSE <<Guard(di, target, <<PanicStmt>>)>>,
              checked |-> e, target |-> target]

MustComments ==
    {[form |-> "line", kw |-> "must", flags |-> fs, operand |-> OpNone] :
        fs \in {<<>>, <<"ret">>, <<"log">>}}

LhsKinds ==
    {[name |-> "_", ident |-> TRUE], [name |-> "err", ident |-> TRUE],
     [name |-> "e", ident |-> TRUE], [name |-> "x.f", ident |-> FALSE]}

LhsLists == UNION {[1..n -> LhsKinds] : n \in 1..MaxLhs}

NoTypes == [avail |-> FALSE, tuple |-> FALSE, errs |-> <<>>]

\* the assignments a @must can be bound to: a call (one right-hand side,
\* a tuple when there are several targets) or one right-hand side per target
Assignments ==
    {[kind |-> "assign", pos |-> 2, end |-> 3, line |-> 1,
      lhs |-> l, tok |-> t, rhsN |-> n, ti |-> ti] :
        l \in LhsLists, t \in {"=", ":="}, n \in 1..MaxLhs,
        ti \in {NoTypes} \cup [avail : {TRUE}, tuple : BOOLEAN,
                               errs : UNION {[1..k -> BOOLEAN] : k \in 1..MaxLhs}]}

WellTyped(a) ==
    /\ a.rhsN \in {1, Len(a.lhs)}
    /\ a.ti.avail =>
          /\ Len(a.ti.errs) = Len(a.lhs)
          /\ a.ti.tuple = (a.rhsN = 1 /\ Len(a.lhs) > 1)

InitMust ==
    /\ massign \in {a \in Assignments : WellTyped(a)}
    /\ \E c \in MustComments :
          mdir = [Directive |-> ParseDirective(Render(c)), Pos |-> 4, Line |-> 1]
    /\ mfunc = BodyFunc
    /\ mres = Nil
    /\ mpc = "ready"
    /\ IdleParse
    /\ IdleStmt
    /\ IdleLines
    /\ IdleRun

GenerateMust ==
    /\ mpc = "ready"
    /\ mres' = generateMustForAssign(massign, mdir, mfunc)
    /\ mpc' = "done"
    /\ UNCHANGED <<massign, mdir, mfunc, parseVars, stmtVars, lineVars, runVars>>

NextMust == GenerateMust

SpecMust == InitMust /\ [][NextMust]_vars

----------------------------------------------------------------------------
(* Claims about generateMustForAssign                                      *)

MustDone == mpc = "done"

\* the identifiers type information marks as error-typed
MarkedIdents ==
    {i \in TypedErrorPositions(massign) : massign.lhs[i].ident}

\* C6 as stated: whenever type information marks the position of a
\* left-hand-side identifier as error-typed, that identifier is the one the
\* generated guard checks, whatever its name.
C6_EveryMarkedIdentIsChecked ==
    MustDone => \A i \in MarkedIdents : mres.checked = i

\* C6, amended: when type information marks left-hand-side identifiers as
\* error-typed, the last of them is the one the generated guard checks,
\* whatever its name (a blank one under its generated name); the
\* last-blank and the name-err heuristics decide only when type
\* information marks no identifier.
C6_LastMarkedIdentIsChecked ==
    MustDone =>
        /\ MarkedIdents # {} =>
              /\ mres.checked = SetMax(MarkedIdents)
              /\ Len(mres.stmts) = 1
              /\ mres.stmts[1].on = mres.assign.lhs[mres.checked].name
        /\ (mres.checked # 0 /\ mres.checked \notin MarkedIdents) =>
              MarkedIdents = {}

C6_Witness ==
    /\ MustDone
    /\ MarkedIdents = {1}
    /\ massign.lhs[1].name = "e"
    /\ Len(massign.lhs) = 2
    /\ massign.lhs[2].name = "_"
    /\ mres.checked = 1

----------------------------------------------------------------------------
(* Injection engine: injectAssertions and processStmtList over one         *)
(* function body. The body is laid out line by line; every line has one    *)
(* of the shapes below, a sequence of statements and comments.             *)

LineShapes ==
    {<<"assign">>,                          \* res, _ := f()
     <<"other">>,                           \* g(res)
     <<"assign", "mustL">>,                 \* res, _ := f() // @must
     <<"assign", "mustB", "mustRetL">>,     \* res, _ := f() /* @must */ // @must -ret
     <<"assign", "mustB", "assign", "mustL">>, \* res, _ := f() /* @must */; res, _ := f() // @must
     <<"other", "mustL">>,                  \* g(res) // @must
     <<"reqL">>,                            \* // @require x
     <<"reqND">>,                           \* // @require -nd x, y
     <<"mustL">>}                           \* // @must

Bodies == UNION {[1..n -> LineShapes] : n \in 1..MaxLines}

IsStmtKind(k) == k \in {"assign", "other"}

CommentInput(k) ==
    CASE k = "reqL"     -> [form |-> "line", kw |-> "require", flags |-> <<>>, operand |-> OpVar]
      [] k = "reqBadL"  -> [form |-> "line", kw |-> "require", flags |-> <<>>, operand |-> OpBad]
      [] k = "reqND"    -> [form |-> "line", kw |-> "require", flags |-> <<"nd">>, operand |-> OpVars]
      [] k = "mustL"    -> [form |-> "line", kw |-> "must", flags |-> <<>>, operand |-> OpNone]
      [] k = "mustB"    -> [form |-> "block", kw |-> "must", flags |-> <<>>, operand |-> OpNone]
      [] k = "noteL"    -> [form |-> "line", kw |-> "plain", flags |-> <<>>, operand |-> OpVar]
      [] k = "ensureL"  -> [form |-> "line", kw |-> "ensure", flags |-> <<>>, operand |-> OpVar]
      [] OTHER          -> [form |-> "line", kw |-> "must", flags |-> <<"ret">>, operand |-> OpNone]

\* the tokens of a body in source order; token n stands at position 2n, a
\* statement ends at 2n+1, the opening brace of the body is at StartPos
RECURSIVE TokensFrom(_, _, _)
TokensFrom(body, ln, n) ==
    IF ln > Len(body) THEN <<>>
    ELSE [j \in 1..Len(body[ln]) |->
            [k |-> body[ln][j], line |-> ln, pos |-> 2 * (n + j)]]
         \o TokensFrom(body, ln + 1, n + Len(body[ln]))

Tokens(body) == TokensFrom(body, 1, 0)

StartPos == 0

AssignStmt(t) ==
    [kind |-> "assign", pos |-> t.pos, end |-> t.pos + 1, line |-> t.line,
     lhs |-> <<[name |-> "res", ident |-> TRUE], [name |-> "_", ident |-> TRUE]>>,
     tok |-> ":=", rhsN |-> 1,
     ti |-> [avail |-> TRUE, tuple |-> TRUE, errs |-> <<FALSE, TRUE>>]]

OtherStmt(t) ==
    [kind |-> "other", pos |-> t.pos, end |-> t.pos + 1, line |-> t.line]

RECURSIVE StmtsOf(_)
StmtsOf(toks) ==
    IF toks = <<>> THEN <<>>
    ELSE LET t == Head(toks) IN
         IF t.k = "assign" THEN <<AssignStmt(t)>> \o StmtsOf(Tail(toks))
         ELSE IF t.k = "other" THEN <<OtherStmt(t)>> \o StmtsOf(Tail(toks))
         ELSE StmtsOf(Tail(toks))

\* collectDirectives: every comment ParseDirective recognises, at its position
RECURSIVE collectDirectives(_)
collectDirectives(toks) ==
    IF toks = <<>> THEN <<>>
    ELSE LET t == Head(toks) IN
         IF IsStmtKind(t.k) THEN collectDirectives(Tail(toks))
         ELSE LET d == ParseDirective(Render(CommentInput(t.k))) IN
              IF d # Nil
              THEN <<[Directive |-> d, Pos |-> t.pos, Line |-> t.line]>>
                   \o collectDirectives(Tail(toks))
              ELSE collectDirectives(Tail(toks))

\* injectAssertions: the position -> directive lookup
BuildDirMap(ds) ==
    [p \in {ds[k].Pos : k \in 1..Len(ds)} |->
        (CHOOSE di \in {ds[k] : k \in 1..Len(ds)} : di.Pos = p)]

Delete(dm, pos) == [p \in (DOMAIN dm) \ {pos} |-> dm[p]]

\* the orders in which ranging over a Go map can yield the keys in S
Orderings(S) ==
    {f \in [1..Cardinality(S) -> S] : \A a, b \in 1..Cardinality(S) : a # b => f[a] # f[b]}

\* processStmtList: the positions between the previous statement and this one
BetweenSet(dm, prevEnd, stmtPos) ==
    {pos \in DOMAIN dm : pos > prevEnd /\ pos < stmtPos}

RECURSIVE InsertSorted(_, _)
InsertSorted(x, sq) ==
    IF sq = <<>> THEN <<x>>
    ELSE IF x < Head(sq) THEN <<x>> \o sq
    ELSE <<Head(sq)>> \o InsertSorted(x, Tail(sq))

RECURSIVE SortAscending(_)
SortAscending(sq) ==
    IF sq = <<>> THEN <<>> ELSE InsertSorted(Head(sq), SortAscending(Tail(sq)))

\* mutant of SortBetween: the positions are left in the order the map gave
SortBetweenMissing(between) == between

\* sort.Slice(between, ...): ascending positions
SortBetween(between) == SortAscending(between)

\* the loop over between: a @must is held back as pending (the last one
\* wins), anything else generates its statements and is consumed
RECURSIVE BetweenLoop(_, _, _, _)
BetweenLoop(between, dm, out, pending) ==
    IF between = <<>> THEN [out |-> out, dm |-> dm, pending |-> pending]
    ELSE LET pos == Head(between)
             di  == dm[pos]
         IN  IF di.Directive.Kind = "Must"
             THEN BetweenLoop(Tail(between), dm, out, pos)
             ELSE BetweenLoop(Tail(between), Delete(dm, pos),
                              out \o generateAssertion(di, BodyFunc), pending)

PrevEnd(stmts, i) == IF i > 1 THEN stmts[i - 1].end ELSE StartPos

\* mutant of InlineCandidates: the lines are not compared
InlineCandidatesAnyLine(dm, stmt) ==
    {pos \in DOMAIN dm : dm[pos].Directive.Kind = "Must"}

\* the @must directives on the line of the statement: what the range over
\* dirMap in the inline branch can meet first
InlineCandidates(dm, stmt) ==
    {pos \in DOMAIN dm : dm[pos].Directive.Kind = "Must" /\ dm[pos].Line = stmt.line}

\* mutant of StmtStep: a block-bound assignment is not appended
StmtStepDropsBound(stmts, i, dm, order, pick) ==
    LET stmt == stmts[i]
        b    == BetweenLoop(SortBetween(order), dm, <<>>, 0)
        blockBound == b.pending # 0 /\ stmt.kind = "assign"
    IN  IF blockBound
        THEN LET g == generateMustForAssign(stmt, b.dm[b.pending], BodyFunc)
             IN  [out |-> b.out \o g.stmts, dm |-> Delete(b.dm, b.pending)]
        ELSE IF stmt.kind = "assign" /\ pick # 0
        THEN LET g == generateMustForAssign(stmt, b.dm[pick], BodyFunc)
             IN  [out |-> b.out \o <<g.assign>> \o g.stmts,
                  dm |-> Delete(b.dm, pick)]
        ELSE [out |-> b.out \o <<stmt>>, dm |-> b.dm]

\* mutant of StmtStep: a bound directive stays in the pool
StmtStepKeepsDirective(stmts, i, dm, order, pick) ==
    LET stmt == stmts[i]
        b    == BetweenLoop(SortBetween(order), dm, <<>>, 0)
        blockBound == b.pending # 0 /\ stmt.kind = "assign"
    IN  IF blockBound
        THEN LET g == generateMustForAssign(stmt, b.dm[b.pending], BodyFunc)
             IN  [out |-> b.out \o <<g.assign>> \o g.stmts, dm |-> b.dm]
        ELSE IF stmt.kind = "assign" /\ pick # 0
        THEN LET g == generateMustForAssign(stmt, b.dm[pick], BodyFunc)
             IN  [out |-> b.out \o <<g.assign>> \o g.stmts, dm |-> b.dm]
        ELSE [out |-> b.out \o <<stmt>>, dm |-> b.dm]

\* one iteration of processStmtList's loop, for the between-order and the
\* inline directive (0: none) that the two ranges over dirMap produced
StmtStep(stmts, i, dm, order, pick) ==
    LET stmt == stmts[i]
        b    == BetweenLoop(SortBetween(order), dm, <<>>, 0)
        blockBound == b.pending # 0 /\ stmt.kind = "assign"
    IN  IF blockBound
        THEN LET g == generateMustForAssign(stmt, b.dm[b.pending], BodyFunc)
             IN  [out |-> b.out \o <<g.assign>> \o g.stmts,
                  dm |-> Delete(b.dm, b.pending)]
        ELSE IF stmt.kind = "assign" /\ pick # 0
        THEN LET g == generateMustForAssign(stmt, b.dm[pick], BodyFunc)
             IN  [out |-> b.out \o <<g.assign>> \o g.stmts,
                  dm |-> Delete(b.dm, pick)]
        ELSE [out |-> b.out \o <<stmt>>, dm |-> b.dm]

\* what the inline range can pick after the between loop ran in this order
InlinePicks(stmts, i, dm, order) ==
    LET stmt == stmts[i]
        b    == BetweenLoop(SortBetween(order), dm, <<>>, 0)
        c    == InlineCandidates(b.dm, stmt)
    IN  IF b.pending # 0 /\ stmt.kind = "assign" THEN {0}
        ELSE IF stmt.kind = "assign" /\ c # {} THEN c
        ELSE {0}

Stmts == StmtsOf(Tokens(srcLines))

InitStmt ==
    /\ srcLines \in Bodies
    /\ dirMap = <<>>
    /\ stmtIdx = 0
    /\ newList = <<>>
    /\ run = 1
    /\ shadows = <<>>
    /\ spc = "new"
    /\ IdleParse
    /\ IdleMust
    /\ IdleLines
    /\ IdleRun

\* processFile up to injectAssertions' lookup: the directives are collected
\* from the parsed file and entered in dirMap
InjectStart ==
    /\ spc = "new"
    /\ dirMap' = BuildDirMap(collectDirectives(Tokens(srcLines)))
    /\ stmtIdx' = 1
    /\ newList' = <<>>
    /\ spc' = "list"
    /\ UNCHANGED <<srcLines, run, shadows, parseVars, mustVars, lineVars, runVars>>

\* processStmtList: one iteration of the loop over the statements
ProcessStmt ==
    /\ spc = "list"
    /\ stmtIdx <= Len(Stmts)
    /\ \E order \in Orderings(BetweenSet(dirMap, PrevEnd(Stmts, stmtIdx), Stmts[stmtIdx].pos)) :
       \E pick \in InlinePicks(Stmts, stmtIdx, dirMap, order) :
          LET r == StmtStep(Stmts, stmtIdx, dirMap, order, pick) IN
          /\ newList' = newList \o r.out
          /\ dirMap' = r.dm
    /\ stmtIdx' = stmtIdx + 1
    /\ UNCHANGED <<srcLines, run, shadows, spc, parseVars, mustVars, lineVars, runVars>>

\* processStmtList returns; the list is printed as the run's shadow content.
\* A second Engine then runs over the unchanged source.
FinishList ==
    /\ spc = "list"
    /\ stmtIdx > Len(Stmts)
    /\ shadows' = Append(shadows, newList)
    /\ IF run = 1
       THEN run' = 2 /\ spc' = "new"
       ELSE run' = run /\ spc' = "done"
    /\ UNCHANGED <<srcLines, dirMap, stmtIdx, newList, parseVars, mustVars, lineVars, runVars>>

NextStmt == InjectStart \/ ProcessStmt \/ FinishList

SpecStmt == InitStmt /\ [][NextStmt]_vars

----------------------------------------------------------------------------
(* Claims about the injection engine                                       *)

\* C1: two runs of the engine over an unchanged source produce identical
\* shadow content (and so identical content-hashed names); nothing depends
\* on the order in which the position-keyed directive map is ranged over.
C1_TwoRunsSameShadow == spc = "done" => shadows[1] = shadows[2]

\* the @require directives of the source between statement i's predecessor
\* (or the opening brace) and statement i
RequiresBefore(i) ==
    LET ds == collectDirectives(Tokens(srcLines)) IN
    {ds[k].Pos : k \in {k \in 1..Len(ds) :
        /\ ds[k].Directive.Kind = "Require"
        /\ ds[k].Pos > PrevEnd(Stmts, i)
        /\ ds[k].Pos < Stmts[i].pos}}

IndexOfStmt(list, pos) ==
    CHOOSE k \in 1..Len(list) : list[k].kind # "guard" /\ list[k].pos = pos

\* the places in the rewritten list holding a guard of one of the directives R
GuardPlaces(list, R) ==
    {k \in 1..Len(list) : list[k].kind = "guard" /\ list[k].dir \in R}

\* C3: when N @require directives lie between the end of one statement (or
\* the scope opening) and the start of the next, their guards stand in the
\* rewritten list directly before that next statement, after the statement
\* before it, in increasing source-position order of their directives.
C3_GuardsInSourceOrder ==
    \A i \in 1..Len(Stmts) :
        (spc \in {"list", "done"} /\ stmtIdx > i) =>
            LET R  == RequiresBefore(i)
                at == IndexOfStmt(newList, Stmts[i].pos)
                G  == GuardPlaces(newList, R)
            IN  /\ {newList[k].dir : k \in G} = R
                /\ \A k \in G : k < at /\ \A j \in k..(at - 1) : j \in G
                /\ \A k1, k2 \in G : k1 < k2 => newList[k1].dir <= newList[k2].dir

C3_Witness ==
    /\ spc = "done"
    /\ \E i \in 1..Len(Stmts) :
          /\ Cardinality(RequiresBefore(i)) >= 2
          /\ Cardinality(GuardPlaces(newList, RequiresBefore(i))) >= 2

----------------------------------------------------------------------------
(* Line remapper: processFile prints the rewritten file without comments   *)
(* and injectLineDirectives walks the printed lines against the original   *)
(* ones. A file here is a function: its header line, the body lines, the   *)
(* closing brace. The source is taken to be gofmt-formatted, so a          *)
(* statement prints as it was written.                                     *)

\* body lines of the files fed to the remapper. Every directive comment is
\* followed by a statement of the body, and no body has two @must on one
\* line, so the rewritten list does not depend on the map's order.
FileShapes ==
    {<<"assign">>, <<"other">>, <<"assign", "mustL">>, <<"other", "mustL">>,
     <<"other", "noteL">>,                  \* g(res) // just x
     <<"reqL">>, <<"reqND">>,
     <<"mustL">>}                           \* // @must

FileBodies ==
    {b \in UNION {[1..n -> FileShapes] : n \in 1..MaxFileLines} : IsStmtKind(b[Len(b)][1])}

Indent == <<"\t">>

RECURSIVE NamesText(_)
NamesText(lhs) ==
    IF lhs = <<>> THEN <<>>
    ELSE IF Len(lhs) = 1 THEN <<lhs[1].name>>
    ELSE <<lhs[1].name, ",", " ">> \o NamesText(Tail(lhs))

\* a statement as go/printer writes it
StmtText(st) ==
    IF st.kind = "assign"
    THEN NamesText(st.lhs) \o <<" ", st.tok, " ", "f", "(", ")">>
    ELSE <<"g", "(", "res", ")">>

RECURSIVE CommentsText(_)
CommentsText(ks) ==
    IF ks = <<>> THEN <<>>
    ELSE Render(CommentInput(Head(ks)))
         \o (IF Len(ks) > 1 THEN <<" ">> ELSE <<>>) \o CommentsText(Tail(ks))

\* one body line of the original file, as readLines returns it
OrigLineText(shape, ln) ==
    IF IsStmtKind(shape[1])
    THEN LET t  == [k |-> shape[1], line |-> ln, pos |-> 0]
             st == IF shape[1] = "assign" THEN AssignStmt(t) ELSE OtherStmt(t)
         IN  Indent \o StmtText(st)
             \o (IF Len(shape) > 1 THEN <<" ">> \o CommentsText(Tail(shape)) ELSE <<>>)
    ELSE Indent \o CommentsText(shape)

FuncHeader == <<"f", "u", "n", "c", " ", "F", "(", ")", " ", "{">>

FuncClose == <<"}">>

\* readLines: the original file, line by line
OrigFile(body) ==
    <<FuncHeader>> \o [ln \in 1..Len(body) |-> OrigLineText(body[ln], ln)] \o <<FuncClose>>

\* injectAssertions over the body: processStmtList's loop run to its end
RECURSIVE InjectFrom(_, _, _, _)
InjectFrom(stmts, i, dm, out) ==
    IF i > Len(stmts) THEN out
    ELSE LET order == CHOOSE o \in Orderings(BetweenSet(dm, PrevEnd(stmts, i), stmts[i].pos)) : TRUE
             pick  == CHOOSE c \in InlinePicks(stmts, i, dm, order) : TRUE
             r     == StmtStep(stmts, i, dm, order, pick)
         IN  InjectFrom(stmts, i + 1, r.dm, out \o r.out)

InjectAll(body) ==
    LET toks == Tokens(body) IN
    InjectFrom(StmtsOf(toks), 1, BuildDirMap(collectDirectives(toks)), <<>>)

\* a printed line: its text, the original line it is the statement of
\* (0: generated code), the number it names (0: not a marker) and the
\* original line injectLineDirectives matched it to (0: none)
PrintedLine(t, o) == [text |-> t, orig |-> o, marker |-> 0, match |-> 0]

\* the lines go/printer writes for an if-guard; the condition is
\* abbreviated to the position of the directive it was generated from
GuardLines(g) ==
    <<PrintedLine(Indent \o <<"if", " ", "c" \o ToString(g.dir), " ", "{">>, 0)>>
    \o (IF g.act = "logreturn"
        THEN <<PrintedLine(Indent \o Indent \o <<"log">>, 0),
               PrintedLine(Indent \o Indent \o <<"return">>, 0)>>
        ELSE <<PrintedLine(Indent \o Indent \o <<g.act>>, 0)>>)
    \o <<PrintedLine(Indent \o <<"}">>, 0)>>

\* cfg.Fprint over a statement list whose comments are gone; body line n is
\* line n + 1 of the file
RECURSIVE PrintList(_)
PrintList(list) ==
    IF list = <<>> THEN <<>>
    ELSE LET st == Head(list) IN
         (IF st.kind = "guard" THEN GuardLines(st)
          ELSE <<PrintedLine(Indent \o StmtText(st), st.line + 1)>>)
         \o PrintList(Tail(list))

\* strings.Split(shadow, "\n") of the printed file: the printer ends the
\* file with a newline, so the last piece is empty
ShadowFile(body) ==
    <<PrintedLine(FuncHeader, 1)>> \o PrintList(InjectAll(body))
    \o <<PrintedLine(FuncClose, Len(body) + 2), PrintedLine(<<>>, 0)>>

isContractComment(line) ==
    LET s == TrimSpace(line) IN
    IF ~HasPrefix(s, <<"/", "/">>) THEN FALSE
    ELSE LET t == TrimSpace(Drop(s, 2)) IN
         HasPrefix(t, KwRequire) \/ HasPrefix(t, KwMust)

\* mutant of SkipContract: the loop passes one line more
SkipContractOneMore(orig, i) ==
    LET RECURSIVE Skip(_)
        Skip(n) == IF n < Len(orig) /\ isContractComment(TrimSpace(orig[n + 1]))
                   THEN Skip(n + 1) ELSE n
    IN  IF Skip(i) < Len(orig) THEN Skip(i) + 1 ELSE Skip(i)

\* the cursor after the run of contract comment lines that starts at it
RECURSIVE SkipContract(_, _)
SkipContract(orig, i) ==
    IF i < Len(orig) /\ isContractComment(TrimSpace(orig[i + 1]))
    THEN SkipContract(orig, i + 1)
    ELSE i

LineMarker(n) ==
    [text |-> <<"/", "/", "l", "i", "n", "e", " ", "F", ".", "g", "o", ":", ToString(n)>>,
     orig |-> 0, marker |-> n, match |-> 0]

\* mutant of Matched: needsLineDirective is not reset
MatchedKeepsNeeds(res, sLine, i, needs) ==
    [result |-> (IF needs THEN res \o <<LineMarker(i + 1)>> ELSE res)
                \o <<[sLine EXCEPT !.match = i + 1]>>,
     origIdx |-> i + 1, needs |-> needs]

\* mutant of Matched: the marker carries the 0-based cursor
MatchedZeroBased(res, sLine, i, needs) ==
    [result |-> (IF needs THEN res \o <<LineMarker(i)>> ELSE res)
                \o <<[sLine EXCEPT !.match = i + 1]>>,
     origIdx |-> i + 1, needs |-> FALSE]

\* a matched line: the marker if one is due, then the line
Matched(res, sLine, i, needs) ==
    [result |-> (IF needs THEN res \o <<LineMarker(i + 1)>> ELSE res)
                \o <<[sLine EXCEPT !.match = i + 1]>>,
     origIdx |-> i + 1, needs |-> FALSE]

\* one iteration of injectLineDirectives' loop over the shadow lines
RemapStep(orig, sLine, i, res, needs) ==
    LET trimmed == TrimSpace(sLine.text) IN
    IF i < Len(orig) /\ trimmed = TrimSpace(orig[i + 1])
    THEN Matched(res, sLine, i, needs)
    ELSE IF i < Len(orig)
    THEN LET j == SkipContract(orig, i) IN
         IF j > i /\ j < Len(orig) /\ trimmed = TrimSpace(orig[j + 1])
         THEN Matched(res, sLine, j, needs)
         ELSE [result |-> res \o <<sLine>>, origIdx |-> j, needs |-> TRUE]
    ELSE [result |-> res \o <<sLine>>, origIdx |-> i, needs |-> TRUE]

InitLines ==
    /\ \E body \in FileBodies :
          /\ origLines = OrigFile(body)
          /\ shadowLines = ShadowFile(body)
    /\ sIdx = 1
    /\ origIdx = 0
    /\ lineResult = <<>>
    /\ needsLineDirective = FALSE
    /\ lpc = "walk"
    /\ IdleParse
    /\ IdleMust
    /\ IdleStmt
    /\ IdleRun

RemapLine ==
    /\ lpc = "walk"
    /\ sIdx <= Len(shadowLines)
    /\ LET r == RemapStep(origLines, shadowLines[sIdx], origIdx, lineResult, needsLineDirective) IN
          /\ lineResult' = r.result
          /\ origIdx' = r.origIdx
          /\ needsLineDirective' = r.needs
    /\ sIdx' = sIdx + 1
    /\ UNCHANGED <<origLines, shadowLines, lpc, parseVars, mustVars, stmtVars, runVars>>

\* the loop is over: the result is joined and returned
RemapReturn ==
    /\ lpc = "walk"
    /\ sIdx > Len(shadowLines)
    /\ lpc' = "done"
    /\ UNCHANGED <<origLines, shadowLines, sIdx, origIdx, lineResult, needsLineDirective,
                   parseVars, mustVars, stmtVars, runVars>>

NextLines == RemapLine \/ RemapReturn

SpecLines == InitLines /\ [][NextLines]_vars

----------------------------------------------------------------------------
(* Claims about the line remapper                                          *)

\* the line a tool reports for output line k: it honours the nearest
\* marker above k and otherwise counts lines consecutively
ReportedLine(out, k) ==
    LET M == {m \in 1..(k - 1) : out[m].marker # 0} IN
    IF M = {} THEN k
    ELSE LET m == SetMax(M) IN out[m].marker + (k - m - 1)

\* C2: in the shadow file processFile produces, every line that is an
\* original source line (not injected guard code) is reported at exactly
\* its line number in the original file by a tool that honours the //line
\* markers and otherwise counts lines consecutively.
C2_OriginalLinesKeepTheirNumbers ==
    lpc = "done" =>
        \A k \in 1..Len(lineResult) :
            lineResult[k].orig # 0 => ReportedLine(lineResult, k) = lineResult[k].orig

----------------------------------------------------------------------------
(* Pipeline driver: Run, the walk callback, processFile and writeOverlay.  *)
(* The engine's own source carries its error handling as directives        *)
(* (// @must -ret after a call): the driver is modelled as the build of    *)
(* that source with its directives applied, in which such a call's error   *)
(* makes the enclosing function return it.                                 *)

NoErr == "nil"

\* mutant of MustRet: the error of the annotated call is dropped
MustRetIgnored(err) == FALSE

\* // @must -ret on a call: on an error the function returns
MustRet(err) == err # NoErr

\* mutant of NoDirectives: processFile goes on without directives
NoDirectivesIgnored(ds) == FALSE

\* processFile: len(directives) == 0
NoDirectives(ds) == ds = <<>>

\* the directories under Root: Root itself, the cache directory
\* filepath.Join(root, ".inco_cache") and a package directory
RootDir == <<>>

CacheDirName == <<".", "i", "n", "c", "o", "_", "c", "a", "c", "h", "e">>

PkgDirName == <<"p", "k", "g">>

\* mutant of SkipDir: hidden directories are walked like any other
SkipDirNotHidden(base) ==
    \/ base = <<"v", "e", "n", "d", "o", "r">>
    \/ base = <<"t", "e", "s", "t", "d", "a", "t", "a">>

\* the walk callback on a directory: hidden directories, vendor and
\* testdata are answered with filepath.SkipDir
SkipDir(base) ==
    \/ HasPrefix(base, <<".">>)
    \/ base = <<"v", "e", "n", "d", "o", "r">>
    \/ base = <<"t", "e", "s", "t", "d", "a", "t", "a">>

\* the walk never calls the callback on the files of a skipped directory
DirSkipped(e) == e.dir # RootDir /\ SkipDir(e.dir)

\* what info.Name() can be for Engine.Root itself: the last element of the
\* path NewEngine was given
RootNames ==
    {<<"p", "r", "o", "j">>, <<".">>, <<"v", "e", "n", "d", "o", "r">>}

\* the file names Run writes in the cache directory
OverlayName == <<"overlay.json">>

CachePath(name) == [dir |-> CacheDirName, name |-> name]

\* what the walk meets: the directory of the file, a name ending in .go,
\* in _test.go or in neither, and the comments of the file
EntryKinds ==
    {[dir |-> RootDir, ext |-> "go", comments |-> cs] :
        cs \in {<<>>, <<"noteL">>, <<"ensureL">>, <<"reqL">>, <<"mustL">>, <<"reqBadL">>}}
    \cup {[dir |-> RootDir, ext |-> "test", comments |-> <<"reqL">>],
          [dir |-> RootDir, ext |-> "txt", comments |-> <<>>]}
    \cup {[dir |-> d, ext |-> "go", comments |-> <<"reqL">>] : d \in {CacheDirName, PkgDirName}}

EntryLists == UNION {[1..n -> EntryKinds] : n \in 1..MaxFiles}

\* the walk callback's test on the path
IsSourceFile(e) == e.ext = "go"

\* collectDirectives over the comments of a file
RECURSIVE FileDirectives(_)
FileDirectives(cs) ==
    IF cs = <<>> THEN <<>>
    ELSE LET d == ParseDirective(Render(CommentInput(Head(cs)))) IN
         (IF d # Nil THEN <<d>> ELSE <<>>) \o FileDirectives(Tail(cs))

\* the errors the calls of processFile can return
FileFaults == {NoErr, "load", "read original", "write shadow"}

\* injectAssertions over the directives of a file: the guards of its shadow
RECURSIVE FileGuardsFrom(_, _)
FileGuardsFrom(ds, k) ==
    IF k > Len(ds) THEN <<>>
    ELSE generateAssertion([Directive |-> ds[k], Pos |-> 2 * k, Line |-> k], BodyFunc)
         \o FileGuardsFrom(ds, k + 1)

FileGuards(e) == FileGuardsFrom(FileDirectives(e.comments), 1)

\* the shadow name of entry i: the base name and the hash of the shadow
\* content, which is the file without its comments and with its guards
ShadowPath(i, e) == <<i, FileGuards(e)>>

\* the error of the call of processFile that the fault strikes
FaultAt(fault, call) == IF fault = call THEN call ELSE NoErr

\* processFile: the error it returns, whether it wrote the shadow file and
\* whether it recorded the file in Overlay.Replace
processFile(e, fault) ==
    IF MustRet(FaultAt(fault, "load"))
    THEN [err |-> "load", shadow |-> FALSE, entry |-> FALSE]
    ELSE IF NoDirectives(FileDirectives(e.comments))
    THEN [err |-> NoErr, shadow |-> FALSE, entry |-> FALSE]
    ELSE IF MustRet(FaultAt(fault, "read original"))
    THEN [err |-> "read original", shadow |-> FALSE, entry |-> FALSE]
    ELSE IF MustRet(FaultAt(fault, "write shadow"))
    THEN [err |-> "write shadow", shadow |-> FALSE, entry |-> FALSE]
    ELSE [err |-> NoErr, shadow |-> fault # "write shadow", entry |-> TRUE]

NoFailure == [at |-> 0, what |-> NoErr]

StaleOverlay == [present |-> TRUE, content |-> <<"stale">>]

NoOverlay == [present |-> FALSE, content |-> <<>>]

\* NewEngine: an empty Overlay.Replace; the cache directory may hold the
\* overlay.json of an earlier run
InitRun ==
    /\ entries \in EntryLists
    /\ walkIdx = 0
    /\ Replace = <<>>
    /\ shadowFiles = {}
    /\ overlayJson \in {NoOverlay, StaleOverlay}
    /\ written = {}
    /\ overlayWrites = 0
    /\ rootName \in RootNames
    /\ processed = <<>>
    /\ failure = NoFailure
    /\ runErr = NoErr
    /\ rpc = "start"
    /\ IdleParse
    /\ IdleMust
    /\ IdleStmt
    /\ IdleLines

\* Run: os.MkdirAll(e.CacheDir)
RunMkdir ==
    /\ rpc = "start"
    /\ \E err \in {NoErr, "create cache dir"} :
          /\ runErr' = err
          /\ IF MustRet(err)
             THEN rpc' = "returned"
             ELSE rpc' = "root"
          /\ failure' = IF err # NoErr THEN [at |-> 0, what |-> err] ELSE failure
    /\ UNCHANGED <<entries, walkIdx, Replace, shadowFiles, overlayJson, written,
                   overlayWrites, rootName, processed, parseVars, mustVars, stmtVars,
                   lineVars>>

\* filepath.Walk calls the callback on Engine.Root first; answered with
\* filepath.SkipDir, the walk is over and returns nil
WalkRoot ==
    /\ rpc = "root"
    /\ IF SkipDir(rootName)
       THEN rpc' = "walked" /\ walkIdx' = walkIdx
       ELSE rpc' = "walk" /\ walkIdx' = 1
    /\ UNCHANGED <<entries, Replace, shadowFiles, overlayJson, written, overlayWrites,
                   rootName, processed, failure, runErr, parseVars, mustVars, stmtVars,
                   lineVars>>

\* the walk callback on the next entry; an error it returns ends the walk
WalkEntry ==
    /\ rpc = "walk"
    /\ walkIdx <= Len(entries)
    /\ LET e == entries[walkIdx] IN
       IF DirSkipped(e) \/ ~IsSourceFile(e)
       THEN /\ walkIdx' = walkIdx + 1
            /\ UNCHANGED <<Replace, shadowFiles, written, processed, failure, runErr, rpc>>
       ELSE \E fault \in FileFaults : \E r \in {processFile(e, fault)} :
               /\ processed' = Append(processed, walkIdx)
               /\ shadowFiles' = IF r.shadow THEN shadowFiles \cup {ShadowPath(walkIdx, e)}
                                 ELSE shadowFiles
               /\ written' = IF r.shadow
                             THEN written \cup {CachePath(ShadowPath(walkIdx, e))}
                             ELSE written
               /\ Replace' = IF r.entry
                             THEN [i \in (DOMAIN Replace) \cup {walkIdx} |->
                                     IF i = walkIdx THEN ShadowPath(walkIdx, e) ELSE Replace[i]]
                             ELSE Replace
               /\ runErr' = r.err
               /\ failure' = IF r.err # NoErr /\ failure = NoFailure
                             THEN [at |-> walkIdx, what |-> r.err] ELSE failure
               /\ IF r.err # NoErr
                  THEN rpc' = "walked" /\ walkIdx' = walkIdx
                  ELSE rpc' = rpc /\ walkIdx' = walkIdx + 1
    /\ UNCHANGED <<entries, overlayJson, overlayWrites, rootName, parseVars, mustVars,
                   stmtVars, lineVars>>

\* filepath.Walk has returned: Run returns its error, or else what
\* writeOverlay returns
RunReturn ==
    /\ \/ rpc = "walked"
       \/ rpc = "walk" /\ walkIdx > Len(entries)
    /\ IF MustRet(runErr)
       THEN UNCHANGED <<runErr, overlayJson, written, overlayWrites>>
       ELSE IF DOMAIN Replace = {}
       THEN /\ runErr' = NoErr
            /\ UNCHANGED <<overlayJson, written, overlayWrites>>
       ELSE \E err \in {NoErr, "write overlay.json"} :
               /\ runErr' = err
               /\ IF err = NoErr
                  THEN /\ overlayJson' = [present |-> TRUE, content |-> Replace]
                       /\ written' = written \cup {CachePath(OverlayName)}
                       /\ overlayWrites' = overlayWrites + 1
                  ELSE UNCHANGED <<overlayJson, written, overlayWrites>>
    /\ rpc' = "returned"
    /\ UNCHANGED <<entries, walkIdx, Replace, shadowFiles, rootName, processed, failure,
                   parseVars, mustVars, stmtVars, lineVars>>

NextRun == RunMkdir \/ WalkRoot \/ WalkEntry \/ RunReturn

SpecRun == InitRun /\ [][NextRun]_vars

----------------------------------------------------------------------------
(* Claims about the pipeline driver                                        *)

HasNoDirective(i) == FileDirectives(entries[i].comments) = <<>>

ProcessedSet == {processed[k] : k \in 1..Len(processed)}

\* C4: a source file in which no comment is recognised as a directive
\* produces no shadow file and no manifest entry, and if no processed file
\* has a directive Run writes no overlay.json.
C4_NoDirectiveNoTrace ==
    /\ \A i \in 1..Len(entries) :
          HasNoDirective(i) =>
              /\ i \notin DOMAIN Replace
              /\ ShadowPath(i, entries[i]) \notin shadowFiles
    /\ (\A i \in ProcessedSet : HasNoDirective(i)) => overlayWrites = 0

C4_Witness ==
    /\ rpc = "returned"
    /\ runErr = NoErr
    /\ Len(processed) >= 2
    /\ \A i \in ProcessedSet : HasNoDirective(i)
    /\ \E i \in ProcessedSet : entries[i].comments = <<"ensureL">>
    /\ shadowFiles = {}
    /\ overlayWrites = 0

\* C5: if processing fails with a fatal error (creating the cache
\* directory, loading the package, reading the source, writing the shadow
\* file), Run returns that error, no file after the failing one is
\* processed, and no manifest is written in that run.
C5_FatalErrorAbortsRun ==
    failure # NoFailure =>
        /\ \A i \in ProcessedSet : i <= failure.at
        /\ overlayWrites = 0
        /\ rpc \in {"walked", "returned"}
        /\ runErr = failure.what

C5_Witness ==
    /\ rpc = "returned"
    /\ failure.what = "write shadow"
    /\ failure.at < Len(entries)
    /\ ~HasNoDirective(failure.at + 1)
    /\ IsSourceFile(entries[failure.at + 1])
    /\ DOMAIN Replace # {}
    /\ runErr = "write shadow"

----------------------------------------------------------------------------
(* Further claims about the parser                                         *)

\* the flag sequences that hold the same flags as fs in another order
Reorderings(fs) ==
    {[k \in 1..Len(fs) |-> fs[p[k]]] : p \in Orderings(1..Len(fs))}

\* a set of well-formed flags: -nd, -log and one of -ret, -ret(...), each
\* at most once
FlagSetInput ==
    /\ inp.kw = "require"
    /\ \A k \in 1..Len(inp.flags) : inp.flags[k] \in {"nd", "ret", "retargs", "log"}
    /\ \A j, k \in 1..Len(inp.flags) :
          j # k => /\ inp.flags[j] # inp.flags[k]
                   /\ {inp.flags[j], inp.flags[k]} # {"ret", "retargs"}

\* C11: for @require, any two orderings of the same set of flags (-nd, -ret
\* or -ret(...), -log) before the same operand text parse to field-for-field
\* identical Directives.
C11_FlagOrderInsensitive ==
    Parsed /\ FlagSetInput =>
        \A fs \in Reorderings(inp.flags) :
            ParseDirective(Render([inp EXCEPT !.flags = fs])) = result

NeitherMode(d) == ~d.ND /\ d.Expr = <<>>

FlagsOnlyInput ==
    /\ inp.operand = OpNone
    /\ \A k \in 1..Len(inp.flags) : inp.flags[k] \in {"ret", "retargs", "log"}

----------------------------------------------------------------------------
(* Further claims about the pipeline driver                                *)

\* a directive of the file has a guard expression, or a custom -ret
\* expression, that is not an expression
UnparsableDirective(d) ==
    \/ d.Expr # <<>> /\ ~ParseExprOk(d.Expr)
    \/ ~AllParse(d.RetExprs)

HasUnparsableExpr(i) ==
    LET ds == FileDirectives(entries[i].comments) IN
    \E k \in 1..Len(ds) : UnparsableDirective(ds[k])

\* C13: if the guard expression of a directive, or a custom -ret(...)
\* expression, cannot be parsed as an expression, generation for that file
\* fails: Run returns an error and neither a shadow file nor a manifest
\* entry is produced for the file.
C13_UnparsableExprFailsFile ==
    \A i \in ProcessedSet :
        HasUnparsableExpr(i) =>
            /\ i \notin DOMAIN Replace
            /\ ShadowPath(i, entries[i]) \notin shadowFiles
            /\ rpc = "returned" => runErr # NoErr

\* C19: Run never writes to an original source file: the only files it
\* creates or changes are shadow files and overlay.json inside the
\* .inco_cache directory under the root, and files under .inco_cache are
\* never picked up as sources.
C19_OnlyCacheIsWritten ==
    /\ \A w \in written :
          /\ w.dir = CacheDirName
          /\ w.name = OverlayName \/ w.name \in shadowFiles
    /\ \A i \in 1..Len(entries) :
          entries[i].dir # CacheDirName => \A w \in written : w.dir # entries[i].dir
    /\ \A i \in ProcessedSet : entries[i].dir # CacheDirName

C19_Witness ==
    /\ rpc = "returned"
    /\ runErr = NoErr
    /\ \E i \in 1..Len(entries) :
          entries[i].dir = CacheDirName /\ IsSourceFile(entries[i]) /\ i < walkIdx
    /\ \E i \in ProcessedSet : entries[i].dir = PkgDirName
    /\ CachePath(OverlayName) \in written
    /\ Cardinality(written) >= 2

\* C24: during a Run the manifest only grows: an entry once recorded is
\* never removed or changed, an entry is recorded only after the shadow
\* file it names has been written, and the manifest is persisted at most
\* once, after the traversal of all files has finished.
C24_ManifestOnlyGrows ==
    [][/\ \A i \in DOMAIN Replace : i \in DOMAIN Replace' /\ Replace'[i] = Replace[i]
       /\ \A i \in DOMAIN Replace' :
             /\ Replace'[i] \in shadowFiles'
             /\ CachePath(Replace'[i]) \in written'
       /\ overlayWrites' <= 1
       /\ overlayWrites' # overlayWrites =>
             /\ rpc = "walk"
             /\ walkIdx > Len(entries)
             /\ rpc' = "returned"
             /\ overlayJson'.content = Replace]_vars

C24_Witness ==
    /\ rpc = "returned"
    /\ overlayWrites = 1
    /\ Cardinality(DOMAIN Replace) >= 2
    /\ \E i \in ProcessedSet : i \notin DOMAIN Replace

\* the files Run is to process: the non-test .go files that are not inside
\* a skipped directory below the root
ToProcess == {i \in 1..Len(entries) : IsSourceFile(entries[i]) /\ ~DirSkipped(entries[i])}

\* C30: Run processes every non-test .go file under the root except those
\* inside a descendant directory whose name starts with '.' or is vendor
\* or testdata; the root directory itself is traversed whatever its name.
C30_RootIsAlwaysTraversed ==
    (rpc = "returned" /\ runErr = NoErr) => ProcessedSet = ToProcess

\* C29: after a successful Run, a manifest file present in the cache
\* directory describes exactly the manifest of that run; in particular,
\* when the run ends with an empty manifest, no overlay.json of an
\* earlier run remains.
C29_ManifestFileIsThisRuns ==
    (rpc = "returned" /\ runErr = NoErr /\ overlayJson.present) =>
        overlayJson.content = Replace

----------------------------------------------------------------------------
(* Further claims about the injection engine                               *)

\* the comment tokens of the body that are @must directives
MustTokens ==
    LET toks == Tokens(srcLines) IN
    {toks[k] : k \in {k \in 1..Len(toks) : toks[k].k \in {"mustL", "mustB", "mustRetL"}}}

MustPositions == {t.pos : t \in MustTokens}

\* the places of a rewritten list that hold the guard of an @must directive
MustGuardPlaces(list) ==
    {k \in 1..Len(list) : list[k].kind = "guard" /\ list[k].dir \in MustPositions}

\* C14: the identifier that replaces a discard placeholder is derived from
\* the directive's line and is unique within the file: two distinct @must
\* directives of one file never yield the same generated identifier.
C14_GeneratedIdentsUnique ==
    \A k1, k2 \in MustGuardPlaces(newList) :
        newList[k1].dir # newList[k2].dir => newList[k1].on # newList[k2].on

\* an @must directive that stands on a line of its own
Standalone(t) == \A j \in 1..Len(srcLines[t.line]) : ~IsStmtKind(srcLines[t.line][j])

\* the statements of the list after position pos
StmtsAfter(pos) == {i \in 1..Len(Stmts) : Stmts[i].pos > pos}

\* the standalone @must directives whose next statement is no assignment
DroppedMusts ==
    {t \in MustTokens :
        /\ Standalone(t)
        /\ StmtsAfter(t.pos) # {}
        /\ Stmts[SetMin(StmtsAfter(t.pos))].kind # "assign"}

InList(list, x) == \E k \in 1..Len(list) : list[k] = x

\* C17: a block-mode @must directive (on a line of its own) whose next
\* statement in the list is not an assignment generates no guard anywhere,
\* and that statement is emitted as it was.
C17_UnboundBlockMustIsDropped ==
    spc = "done" =>
        \A t \in DroppedMusts : \A r \in 1..2 :
            /\ \A k \in 1..Len(shadows[r]) :
                  shadows[r][k].kind = "guard" => shadows[r][k].dir # t.pos
            /\ InList(shadows[r], Stmts[SetMin(StmtsAfter(t.pos))])

C17_Witness ==
    /\ spc = "done"
    /\ \E t \in DroppedMusts :
          /\ \E i \in StmtsAfter(t.pos) : Stmts[i].kind = "assign" /\ Stmts[i].line = t.line + 2
          /\ \A k \in 1..Len(shadows[2]) : shadows[2][k].kind # "guard"

\* the line of the directive at position pos
LineOfPos(pos) == (CHOOSE t \in MustTokens : t.pos = pos).line

\* the statement of the source that place k of the rewritten list holds
SourceIndex(list, k) == CHOOSE i \in 1..Len(Stmts) : Stmts[i].pos = list[k].pos

\* the guard at place k follows its assignment: the directive stands
\* between that assignment and the statement before it, or on its line
BoundAt(list, k) ==
    /\ k > 1
    /\ list[k - 1].kind = "assign"
    /\ LET i == SourceIndex(list, k - 1) IN
       \/ list[k].dir > PrevEnd(Stmts, i) /\ list[k].dir < Stmts[i].pos
       \/ LineOfPos(list[k].dir) = Stmts[i].line

\* C18: when an @must directive is bound to an assignment (block mode: the
\* assignment is the next statement after the directive; inline: the
\* directive is on the assignment's line), its guard stands in the
\* rewritten list immediately after that assignment, and the directive is
\* removed from the pending pool.
C18_GuardFollowsBoundAssignment ==
    spc = "list" =>
        \A k \in MustGuardPlaces(newList) :
            /\ BoundAt(newList, k)
            /\ newList[k].dir \notin DOMAIN dirMap

C18_Witness ==
    /\ spc = "list"
    /\ stmtIdx > Len(Stmts)
    /\ Cardinality(MustGuardPlaces(newList)) >= 2
    /\ \E k \in MustGuardPlaces(newList) :
          LineOfPos(newList[k].dir) < Stmts[SourceIndex(newList, k - 1)].line
    /\ \E k \in MustGuardPlaces(newList) :
          LineOfPos(newList[k].dir) = Stmts[SourceIndex(newList, k - 1)].line

\* the places of a rewritten list that hold a statement of the source
SourcePlaces(list) == {k \in 1..Len(list) : list[k].kind # "guard"}

\* the n-th smallest element of a set of numbers
RECURSIVE NthOf(_, _)
NthOf(S, n) == IF n = 1 THEN SetMin(S) ELSE NthOf(S \ {SetMin(S)}, n - 1)

\* C27: processStmtList only inserts statements: every statement of the
\* input list occurs exactly once in the list it builds and the input
\* statements keep their order, whatever directives apply to them.
C27_OnlyInserts ==
    spc = "list" =>
        /\ Cardinality(SourcePlaces(newList)) = stmtIdx - 1
        /\ \A n \in 1..(stmtIdx - 1) :
              LET x == newList[NthOf(SourcePlaces(newList), n)] IN
              /\ x.pos = Stmts[n].pos
              /\ x.kind = Stmts[n].kind
              /\ x.end = Stmts[n].end

C27_Witness ==
    /\ spc = "list"
    /\ stmtIdx > Len(Stmts)
    /\ Len(Stmts) >= 3
    /\ Cardinality(MustGuardPlaces(newList)) >= 2
    /\ Len(newList) > Len(Stmts) + 2

\* the statements of the source that stand before the directive on its line
TrailedBy(t) == {i \in 1..Len(Stmts) : Stmts[i].line = t.line /\ Stmts[i].pos < t.pos}

\* the inline directives: @must comments that trail a statement
InlineMusts == {t \in MustTokens : TrailedBy(t) # {}}

\* C28: an inline @must written as a trailing comment after a statement is
\* bound to that statement or to none: it never causes a guard to be
\* attached to a later statement of the list.
C28_InlineMustStaysOnItsStatement ==
    \A t \in InlineMusts :
        \A k \in MustGuardPlaces(newList) :
            newList[k].dir = t.pos =>
                /\ k > 1
                /\ newList[k - 1].kind # "guard"
                /\ newList[k - 1].pos <= Stmts[SetMax(TrailedBy(t))].pos

----------------------------------------------------------------------------
(* The code generator over every function type: generateAssertion for an   *)
(* @require directive and generateMustForAssign for an @must directive,    *)
(* inside a function with the results mfunc.                               *)

GuardFlagSeqs ==
    {fs \in FlagSeqs : \A k \in 1..Len(fs) : fs[k] \in {"nd", "ret", "log", "retargs", "retbad"}}

\* the directive comments given to the generator: an @require always has
\* text after its flags, an @must never
GuardComments ==
    {c \in [form : {"line"}, kw : {"require", "must"}, flags : GuardFlagSeqs,
            operand : {OpNone, OpVar, OpVars, OpBad}] :
        /\ c.kw = "must" => c.operand = OpNone /\ \A k \in 1..Len(c.flags) : c.flags[k] # "nd"
        /\ c.kw = "require" => c.operand # OpNone}

\* res, _ := f() on line 1, the directive behind it
GuardAssign == AssignStmt([pos |-> 2, line |-> 1])

InitGuard ==
    /\ massign = GuardAssign
    /\ \E c \in GuardComments :
          mdir = [Directive |-> ParseDirective(Render(c)), Pos |-> 4, Line |-> 1]
    /\ mfunc \in FuncTypes
    /\ mres = Nil
    /\ mpc = "ready"
    /\ IdleParse
    /\ IdleStmt
    /\ IdleLines
    /\ IdleRun

\* processStmtList on an @require directive before a statement
GenerateRequireGuards ==
    /\ mpc = "ready"
    /\ mdir.Directive.Kind = "Require"
    /\ mres' = [assign |-> massign, stmts |-> generateAssertion(mdir, mfunc),
                checked |-> 0, target |-> ""]
    /\ mpc' = "done"
    /\ UNCHANGED <<massign, mdir, mfunc, parseVars, stmtVars, lineVars, runVars>>

\* processStmtList on an @must directive bound to an assignment
GenerateMustGuards ==
    /\ mpc = "ready"
    /\ mdir.Directive.Kind = "Must"
    /\ mres' = generateMustForAssign(massign, mdir, mfunc)
    /\ mpc' = "done"
    /\ UNCHANGED <<massign, mdir, mfunc, parseVars, stmtVars, lineVars, runVars>>

NextGuard == GenerateRequireGuards \/ GenerateMustGuards

SpecGuard == InitGuard /\ [][NextGuard]_vars

----------------------------------------------------------------------------
(* Claims about the generated guards                                       *)

\* the declared results of the enclosing function, one type per result
RECURSIVE DeclaredTypes(_)
DeclaredTypes(fields) ==
    IF fields = <<>> THEN <<>>
    ELSE [k \in 1..(IF Head(fields).names = 0 THEN 1 ELSE Head(fields).names) |->
            Head(fields).type]
         \o DeclaredTypes(Tail(fields))

DeclaredResults == IF mfunc = NoFunc THEN <<>> ELSE DeclaredTypes(mfunc.results)

AllResultsNamed ==
    /\ mfunc # NoFunc
    /\ \A k \in 1..Len(mfunc.results) : mfunc.results[k].names > 0

\* what the claim says the return of an @require guard carries
RequireReturnIs(results) ==
    LET d == mdir.Directive IN
    IF d.RetExprs # <<>> THEN results = d.RetExprs
    ELSE IF DeclaredResults = <<>> \/ AllResultsNamed THEN results = <<>>
    ELSE /\ Len(results) = Len(DeclaredResults)
         /\ \A k \in 1..Len(results) : results[k] = ZeroValue(DeclaredResults[k])

\* C15: the guard of an @require directive: with neither -ret nor -log its
\* body is a single panic; with -ret(e1,...,ek) a return of e1..ek in that
\* order; with -ret and no expressions a bare return when the function has
\* no results or only named ones, otherwise a return of one zero value per
\* declared result; with -log a log statement stands before the return;
\* and no panic is generated when Ret or Log is set.
C15_RequireActionSelection ==
    (mpc = "done" /\ mdir.Directive.Kind = "Require") =>
        \A k \in 1..Len(mres.stmts) :
            LET d    == mdir.Directive
                body == mres.stmts[k].body
            IN  IF ~d.Ret /\ ~d.Log THEN body = <<PanicStmt>>
                ELSE /\ \A j \in 1..Len(body) : body[j].stmt # "panic"
                     /\ Len(body) = (IF d.Log THEN 2 ELSE 1)
                     /\ d.Log => body[1] = LogStmt
                     /\ body[Len(body)].stmt = "return"
                     /\ RequireReturnIs(body[Len(body)].results)

C15_Witness ==
    /\ mpc = "done"
    /\ mdir.Directive.Kind = "Require"
    /\ mdir.Directive.ND
    /\ mdir.Directive.Log
    /\ mdir.Directive.RetExprs = <<>>
    /\ Len(DeclaredResults) = 2
    /\ ~AllResultsNamed
    /\ Len(mres.stmts) = 2
    /\ Len(mres.stmts[2].body[2].results) = 2

\* C16: for an @must directive with -ret and no custom expressions the
\* generated return carries exactly one value per declared result of the
\* enclosing function: the checked error variable at every error-typed
\* position and the zero value of the result type at every other position.
C16_MustReturnMatchesResults ==
    (/\ mpc = "done"
     /\ mdir.Directive.Kind = "Must"
     /\ mdir.Directive.Ret
     /\ mdir.Directive.RetExprs = <<>>) =>
        \A k \in 1..Len(mres.stmts) :
            LET body    == mres.stmts[k].body
                results == body[Len(body)].results
            IN  /\ body[Len(body)].stmt = "return"
                /\ Len(results) = Len(DeclaredResults)
                /\ \A j \in 1..Len(results) :
                      results[j] = (IF DeclaredResults[j] = "error" THEN mres.target
                                    ELSE ZeroValue(DeclaredResults[j]))

----------------------------------------------------------------------------
(* Further claims about the line remapper                                  *)

MarkerPlaces(out) == {k \in 1..Len(out) : out[k].marker # 0}

\* an injected line of the output: passed through unmatched, no marker
Injected(out, k) == out[k].marker = 0 /\ out[k].match = 0

\* a line of the output that matched the original line at the cursor
MatchedLine(out, k) == out[k].marker = 0 /\ out[k].match # 0

\* C20: in the output of injectLineDirectives a marker is emitted only at a
\* re-sync: every marker is immediately preceded by an injected line and
\* immediately followed by a matched line, so no marker stands between two
\* injected lines and at most one marker follows a run of injected lines.
C20_MarkerOnlyAtResync ==
    \A k \in MarkerPlaces(lineResult) :
        /\ k > 1
        /\ Injected(lineResult, k - 1)
        /\ k < Len(lineResult)
        /\ MatchedLine(lineResult, k + 1)

C20_Witness ==
    /\ lpc = "done"
    /\ \E k \in MarkerPlaces(lineResult) :
          /\ k > 3
          /\ k + 1 < Len(lineResult)
          /\ \A j \in (k - 3)..(k - 1) : Injected(lineResult, j)

\* C21, state part: the line after a marker naming N has the trimmed text
\* of original line N, and later markers name larger lines
MarkersNameTheResumedLine ==
    /\ \A k \in MarkerPlaces(lineResult) :
          /\ k < Len(lineResult)
          /\ lineResult[k].marker \in 1..Len(origLines)
          /\ TrimSpace(lineResult[k + 1].text) = TrimSpace(origLines[lineResult[k].marker])
    /\ \A k1, k2 \in MarkerPlaces(lineResult) :
          k1 < k2 => lineResult[k1].marker < lineResult[k2].marker

\* C21: every marker carries a 1-based N such that the generated line right
\* after it has the trimmed text of original line N; the cursor never moves
\* backwards, so successive markers carry strictly increasing N.
C21_MarkersNameTheResumedLine ==
    [][MarkersNameTheResumedLine' /\ origIdx' >= origIdx]_vars

C21_Witness ==
    /\ lpc = "done"
    /\ Cardinality(MarkerPlaces(lineResult)) >= 2

\* the step appended a generated line as injected
PassedAsInjected ==
    /\ Len(lineResult') = Len(lineResult) + 1
    /\ Injected(lineResult', Len(lineResult'))

\* C22: when a generated line matches neither the original line at the
\* cursor nor the line reached after skipping contract comments, it is
\* passed through as injected and the cursor has the value it had before.
C22_InjectedLineLeavesCursor ==
    [][PassedAsInjected => origIdx' = origIdx]_vars

\* C22 as the code has it: the cursor has moved past the contract comment
\* lines that stood at it, and past nothing else.
C22_InjectedLineSkipsOnlyComments ==
    [][PassedAsInjected =>
          /\ origIdx' >= origIdx
          /\ \A n \in (origIdx + 1)..origIdx' : isContractComment(TrimSpace(origLines[n]))
          /\ origIdx' < Len(origLines) =>
                ~isContractComment(TrimSpace(origLines[origIdx' + 1]))]_vars

C22_Witness ==
    /\ lineResult # <<>>
    /\ Injected(lineResult, Len(lineResult))
    /\ origIdx > 1
    /\ origIdx < Len(origLines)
    /\ isContractComment(TrimSpace(origLines[origIdx]))
    /\ isContractComment(TrimSpace(origLines[origIdx - 1]))

----------------------------------------------------------------------------
(* The argument splitter on its own: splitTopLevelCommas over arguments    *)
(* joined by commas, and parseRetExprs over the parenthesised list         *)
(* followed by more text.                                                  *)

\* arguments without a top-level comma: an identifier, a call, a string
\* holding a comma, a string holding an escaped quote and a comma, a padded
\* identifier, a composite literal, and the rune literal '"'
ArgTexts ==
    {<<"a">>,
     <<"f", "(", "x", ",", " ", "y", ")">>,
     <<"\"", "a", ",", "b", "\"">>,
     <<"\"", "\\", "\"", ",", "\"">>,
     <<" ", "n", " ">>,
     <<"[", "]", "T", "{", "1", ",", "2", "}">>,
     <<"'", "\"", "'">>}

ArgLists == UNION {[1..n -> ArgTexts] : n \in 1..MaxArgs}

\* what follows the closing parenthesis of the list
RestTexts == {<<>>, <<" ", "x", " ", ">", " ", "0">>}

\* strings.Join(args, ",")
RECURSIVE JoinArgs(_)
JoinArgs(args) ==
    IF args = <<>> THEN <<>>
    ELSE IF Len(args) = 1 THEN args[1]
    ELSE args[1] \o <<",">> \o JoinArgs(Tail(args))

InitSplit ==
    /\ inp \in [args : ArgLists, rest : RestTexts]
    /\ text = JoinArgs(inp.args)
    /\ result = Nil
    /\ ppc = "ready"
    /\ IdleMust
    /\ IdleStmt
    /\ IdleLines
    /\ IdleRun

\* splitTopLevelCommas(text)
SplitJoined ==
    /\ ppc = "ready"
    /\ result' = [exprs |-> splitTopLevelCommas(text), remaining |-> <<>>, ok |-> TRUE]
    /\ ppc' = "split"
    /\ UNCHANGED <<inp, text, mustVars, stmtVars, lineVars, runVars>>

\* parseRetExprs("(" + text + ")" + rest)
ParseRetList ==
    /\ ppc = "ready"
    /\ result' = parseRetExprs(<<"(">> \o text \o <<")">> \o inp.rest)
    /\ ppc' = "ret"
    /\ UNCHANGED <<inp, text, mustVars, stmtVars, lineVars, runVars>>

NextSplit == SplitJoined \/ ParseRetList

SpecSplit == InitSplit /\ [][NextSplit]_vars

----------------------------------------------------------------------------
(* Claims about the argument splitter                                      *)

TrimmedArgs == [k \in 1..Len(inp.args) |-> TrimSpace(inp.args[k])]

\* C25: for a list of non-empty arguments without a top-level comma,
\* splitTopLevelCommas over the arguments joined by commas returns the
\* list with each entry trimmed, and parseRetExprs over the parenthesised
\* list returns the same list and the text after the closing parenthesis.
C25_SplitReturnsTheArguments ==
    /\ ppc = "split" => result.exprs = TrimmedArgs
    /\ ppc = "ret" => result.exprs = TrimmedArgs /\ result.remaining = inp.rest

----------------------------------------------------------------------------
(* injectAssertions over two statement lists that share dirMap: a function *)
(* body that holds an if statement, and the body of that if statement.     *)
(* ast.Inspect reaches the function body first and the block inside it     *)
(* afterwards.                                                             *)

NestShapes ==
    {<<"assign">>, <<"other">>, <<"assign", "mustL">>, <<"reqL">>, <<"mustL">>}

\* the lines before the if statement: none or one
NestPre == {<<>>, <<<<"mustL">>>>, <<<<"assign", "mustL">>>>}

\* the lines after the if statement: none or one
NestPost == {<<>>, <<<<"assign">>>>, <<<<"mustL">>>>, <<<<"reqL">>>>}

NestInner == UNION {[1..n -> NestShapes] : n \in 1..MaxNest}

\* the closing brace, alone or followed by // @must
CloseShapes == {<<"close">>, <<"close", "mustL">>}

\* a body: the lines before the if statement, the lines of its block, the
\* line of the closing brace, the lines after it; oneLine: the if
\* statement is written on a single line
NestBodies ==
    [pre : NestPre, inner : NestInner, close : CloseShapes, post : NestPost,
     oneLine : BOOLEAN]

RECURSIVE Concat(_)
Concat(ls) == IF ls = <<>> THEN <<>> ELSE Head(ls) \o Concat(Tail(ls))

NestLines(b) ==
    IF b.oneLine
    THEN b.pre \o <<<<"open">> \o Concat(b.inner) \o b.close>> \o b.post
    ELSE b.pre \o <<<<"open">>>> \o b.inner \o <<b.close>> \o b.post

NestTokens(b) == Tokens(NestLines(b))

OpenToken(b) ==
    LET toks == NestTokens(b) IN toks[CHOOSE k \in 1..Len(toks) : toks[k].k = "open"]

CloseToken(b) ==
    LET toks == NestTokens(b) IN toks[CHOOSE k \in 1..Len(toks) : toks[k].k = "close"]

IsBrace(t) == t.k \in {"open", "close"}

NotBrace(t) == ~IsBrace(t)

\* the comments of the file
NestDirectives(b) == collectDirectives(SelectSeq(NestTokens(b), NotBrace))

\* the if statement: from its keyword to its closing brace
BlockStmt(b) ==
    [kind |-> "block", pos |-> OpenToken(b).pos, end |-> CloseToken(b).pos + 1,
     line |-> OpenToken(b).line]

\* the statement list of the function body
OuterStmts(b) ==
    LET toks == NestTokens(b)
        Before(t) == t.pos < OpenToken(b).pos
        After(t)  == t.pos > CloseToken(b).pos
    IN  StmtsOf(SelectSeq(toks, Before)) \o <<BlockStmt(b)>> \o StmtsOf(SelectSeq(toks, After))

\* the statement list of the block
InnerStmts(b) ==
    LET toks == NestTokens(b)
        Inside(t) == t.pos > OpenToken(b).pos /\ t.pos < CloseToken(b).pos
    IN  StmtsOf(SelectSeq(toks, Inside))

\* the list processStmtList is working on (run 1: function body, run 2:
\* block) and the position of its opening brace
NestList == IF run = 1 THEN OuterStmts(srcLines) ELSE InnerStmts(srcLines)

NestStartPos == IF run = 1 THEN StartPos ELSE OpenToken(srcLines).pos

NestPrevEnd(i) == IF i > 1 THEN NestList[i - 1].end ELSE NestStartPos

InitNest ==
    /\ srcLines \in NestBodies
    /\ dirMap = <<>>
    /\ stmtIdx = 0
    /\ newList = <<>>
    /\ run = 1
    /\ shadows = <<>>
    /\ spc = "new"
    /\ IdleParse
    /\ IdleMust
    /\ IdleLines
    /\ IdleRun

\* injectAssertions builds the lookup and ast.Inspect reaches the function body
NestStart ==
    /\ spc = "new"
    /\ dirMap' = BuildDirMap(NestDirectives(srcLines))
    /\ stmtIdx' = 1
    /\ spc' = "list"
    /\ UNCHANGED <<srcLines, newList, run, shadows, parseVars, mustVars, lineVars, runVars>>

\* one iteration of processStmtList over the current list
NestStmt ==
    /\ spc = "list"
    /\ stmtIdx <= Len(NestList)
    /\ \E order \in Orderings(BetweenSet(dirMap, NestPrevEnd(stmtIdx), NestList[stmtIdx].pos)) :
       \E pick \in InlinePicks(NestList, stmtIdx, dirMap, order) :
       \E r \in {StmtStep(NestList, stmtIdx, dirMap, order, pick)} :
          /\ newList' = newList \o r.out
          /\ dirMap' = r.dm
    /\ stmtIdx' = stmtIdx + 1
    /\ UNCHANGED <<srcLines, run, shadows, spc, parseVars, mustVars, lineVars, runVars>>

\* processStmtList returns; after the function body ast.Inspect reaches the
\* block, with the same dirMap
NestFinishList ==
    /\ spc = "list"
    /\ stmtIdx > Len(NestList)
    /\ shadows' = Append(shadows, newList)
    /\ IF run = 1
       THEN run' = 2 /\ stmtIdx' = 1 /\ newList' = <<>> /\ spc' = spc
       ELSE run' = run /\ stmtIdx' = stmtIdx /\ newList' = newList /\ spc' = "done"
    /\ UNCHANGED <<srcLines, dirMap, parseVars, mustVars, lineVars, runVars>>

NextNest == NestStart \/ NestStmt \/ NestFinishList

SpecNest == InitNest /\ [][NextNest]_vars

----------------------------------------------------------------------------
(* Claims about the shared pending pool                                    *)

\* everything generated so far, list after list
Generated == Concat(shadows) \o (IF spc = "list" THEN newList ELSE <<>>)

DirectivePositions ==
    LET ds == NestDirectives(srcLines) IN {ds[k].Pos : k \in 1..Len(ds)}

\* C26: across the traversal of one file each directive generates guard
\* statements at most once: once its guards are spliced in, it is out of
\* the pending pool, and no other statement list binds it again.
C26_DirectiveGeneratesOnce ==
    spc \in {"list", "done"} =>
        \A p \in DirectivePositions :
            LET G == GuardPlaces(Generated, {p}) IN
            /\ Cardinality(G) <= 1
            /\ G # {} => p \notin DOMAIN dirMap

C26_Witness ==
    /\ spc = "done"
    /\ srcLines.oneLine
    /\ srcLines.close = <<"close", "mustL">>
    /\ \E k \in 1..Len(shadows[1]) :
          /\ shadows[1][k].kind = "guard"
          /\ shadows[1][k].dir = CloseToken(srcLines).pos + 2
    /\ \E i \in 1..Len(InnerStmts(srcLines)) : InnerStmts(srcLines)[i].kind = "assign"
    /\ \A k \in 1..Len(shadows[2]) : shadows[2][k].kind # "guard"

====
